---- MODULE Spec2Model ----
(***************************************************************************)
(* SADP transport core of hikvision-tooling: Scanner.Discover with its     *)
(* per-interface tasks and the MAC-keyed device registry, and              *)
(* Scanner.SendCommand with its unicast and broadcast-with-MAC paths.      *)
(***************************************************************************)
EXTENDS Integers, Sequences, FiniteSets, TLC

(***************************************************************************)
(* Bounds of the model.                                                    *)
(***************************************************************************)
\* Discover() calls made on one Scanner in one behaviour.
MaxCalls == 2
\* Datagrams of one discovery socket that its counter of reads tells apart.
MaxReads == 2
\* Clock ticks from a discovery task's SetReadDeadline call to its deadline.
DeadlineTicks == 1

\* Datagrams the sockets of one broadcast send receive before their deadlines.
MaxBcastReads == 3
\* The same, in the runs that fill the result channel.
FloodReads == 12
\* the longest string handed to Truncate
MaxStrLen == 4
\* the most host bits of a prefix handed to ExpandCIDR
MaxHostBits == 9
\* the longest timeout handed to PingHost, in ticks of the clock
MaxTimeout == 2
\* the longest byte sequence handed to DecryptXOR
MaxDataLen == 2
\* the largest worker count and the longest IP list handed to discoverDevices
MaxWorkers == 2
MaxIPs == 2

\* part_001:279: the buffer of responseChan
ChanCap == 10
\* scanner.go:17: the SADP port
Port == 37020

None == "none"

(***************************************************************************)
(* Strings the code transforms are sequences of characters.                *)
(***************************************************************************)
\* strings.ToUpper on one character
ToUpperChar(c) ==
    CASE c = "a" -> "A"
      [] c = "b" -> "B"
      [] c = "c" -> "C"
      [] c = "d" -> "D"
      [] c = "e" -> "E"
      [] c = "f" -> "F"
      [] OTHER -> c

\* strings.ToUpper
ToUpper(s) == [i \in 1..Len(s) |-> ToUpperChar(s[i])]

\* strings.ReplaceAll for a one-character pattern and replacement
ReplaceAll(s, old, new) == [i \in 1..Len(s) |-> IF s[i] = old THEN new ELSE s[i]]

\* scanner.go:206, the registry key of a parsed device
NormalizeMAC(raw) == ToUpper(ReplaceAll(raw, "-", ":"))

(***************************************************************************)
(* The host's network interfaces, as net.Interfaces() reports them.        *)
(***************************************************************************)
Interfaces ==
    << [Name |-> "lo", Up |-> TRUE, Loopback |-> TRUE, AddrsErr |-> FALSE,
        Addrs |-> << [IP |-> "127.0.0.1", IsIPNet |-> TRUE, IsV4 |-> TRUE,
                      Octets |-> <<127, 0, 0, 1>>, Mask |-> <<255, 0, 0, 0>>] >>],
       [Name |-> "eth0", Up |-> TRUE, Loopback |-> FALSE, AddrsErr |-> FALSE,
        Addrs |-> << [IP |-> "fe80::1", IsIPNet |-> TRUE, IsV4 |-> FALSE,
                      Octets |-> << >>, Mask |-> << >>],
                     [IP |-> "192.168.1.10", IsIPNet |-> TRUE, IsV4 |-> TRUE,
                      Octets |-> <<192, 168, 1, 10>>, Mask |-> <<255, 255, 255, 0>>] >>],
       [Name |-> "eth1", Up |-> FALSE, Loopback |-> FALSE, AddrsErr |-> FALSE,
        Addrs |-> << [IP |-> "172.16.0.9", IsIPNet |-> TRUE, IsV4 |-> TRUE,
                      Octets |-> <<172, 16, 0, 9>>, Mask |-> <<255, 255, 0, 0>>] >>],
       [Name |-> "tun0", Up |-> TRUE, Loopback |-> FALSE, AddrsErr |-> TRUE,
        Addrs |-> << [IP |-> "10.8.0.2", IsIPNet |-> TRUE, IsV4 |-> TRUE,
                      Octets |-> <<10, 8, 0, 2>>, Mask |-> <<255, 255, 255, 255>>] >>],
       [Name |-> "wlan0", Up |-> TRUE, Loopback |-> FALSE, AddrsErr |-> FALSE,
        Addrs |-> << [IP |-> "10.0.0.5", IsIPNet |-> TRUE, IsV4 |-> TRUE,
                      Octets |-> <<10, 0, 0, 5>>, Mask |-> <<255, 255, 240, 0>>],
                     [IP |-> "10.0.0.6", IsIPNet |-> FALSE, IsV4 |-> TRUE,
                      Octets |-> <<10, 0, 0, 6>>, Mask |-> <<255, 255, 240, 0>>] >>] >>

\* the addresses of one interface that get a task (inner loop of the fan-out)
AddrsOf(iface) ==
    LET ok(a) == a.IsIPNet /\ a.IsV4
        kept == SelectSeq(iface.Addrs, ok)
    IN  [i \in 1..Len(kept) |-> kept[i].IP]

\* the local addresses a fan-out starts a task on, in spawn order
RECURSIVE UsableAddrs(_)
UsableAddrs(ifaces) ==
    IF ifaces = << >> THEN << >>
    ELSE LET iface == Head(ifaces)
         IN  IF ~iface.Up \/ iface.Loopback \/ iface.AddrsErr
             THEN UsableAddrs(Tail(ifaces))
             ELSE AddrsOf(iface) \o UsableAddrs(Tail(ifaces))

\* the address record of local address t
AddrRecord(t) ==
    CHOOSE a \in {Interfaces[i].Addrs[j] :
                    <<i, j>> \in {<<i, j>> \in (1..Len(Interfaces)) \X (1..Len(Interfaces)) :
                                    j <= Len(Interfaces[i].Addrs)}} : a.IP = t

\* every address that can ever own a task
LocalIPs == {UsableAddrs(Interfaces)[i] : i \in 1..Len(UsableAddrs(Interfaces))}

(***************************************************************************)
(* Datagrams a discovery socket can receive.                               *)
(***************************************************************************)
\* marker: the text contains "<ProbeMatch" or "ProbeMatch>";
\* wellFormed: xml.Unmarshal into Device succeeds; MAC: the <MAC> text;
\* body: the remaining fields of the response.
Datagrams ==
    { [marker |-> TRUE, wellFormed |-> TRUE,
       MAC |-> <<"a", "a", "-", "0", "1">>, body |-> "inquiry"],
      [marker |-> TRUE, wellFormed |-> TRUE,
       MAC |-> <<"A", "A", ":", "0", "1">>, body |-> "inquiry_v32"],
      [marker |-> TRUE, wellFormed |-> TRUE,
       MAC |-> <<"B", "B", ":", "0", "2">>, body |-> "inquiry"],
      [marker |-> FALSE, wellFormed |-> FALSE,
       MAC |-> <<"C", "C", ":", "0", "3">>, body |-> "noise"],
      [marker |-> TRUE, wellFormed |-> FALSE,
       MAC |-> <<"D", "D", ":", "0", "4">>, body |-> "broken"] }

\* parseResponse that keeps the device of a response that failed to unmarshal
parseResponseNoUnmarshalCheck(data) ==
    IF ~data.marker THEN << >>
    ELSE << [MAC |-> NormalizeMAC(data.MAC), body |-> data.body,
             AdapterIP |-> "", ReceivedTime |-> 0] >>

\* Scanner.parseResponse: << >> for nil, else a one-element sequence
parseResponse(data) ==
    IF ~data.marker THEN << >>
    ELSE IF ~data.wellFormed THEN << >>
    ELSE << [MAC |-> NormalizeMAC(data.MAC), body |-> data.body,
             AdapterIP |-> "", ReceivedTime |-> 0] >>


(***************************************************************************)
(* The command catalog and BuildCommandXML                                 *)
(***************************************************************************)
\* strings.Contains
Contains(s, sub) ==
    \E i \in 0..(Len(s) - Len(sub)) : SubSeq(s, i + 1, i + Len(sub)) = sub

\* part_001:23-129: each template is the Types text it carries and the
\* elements its placeholders fill, in placeholder order
Commands ==
    [ inquiry |-> [Name |-> "inquiry", Types |-> "inquiry",
                   Template |-> <<"Uuid">>, NeedsMAC |-> FALSE, NeedsPass |-> FALSE],
      inquiry_v32 |-> [Name |-> "inquiry_v32", Types |-> "inquiry_v32",
                   Template |-> <<"Uuid">>, NeedsMAC |-> FALSE, NeedsPass |-> FALSE],
      exchangecode |-> [Name |-> "exchangecode", Types |-> "exchangecode",
                   Template |-> <<"Uuid", "MAC">>, NeedsMAC |-> TRUE, NeedsPass |-> FALSE],
      getencryptstring |-> [Name |-> "getencryptstring", Types |-> "getencryptstring",
                   Template |-> <<"Uuid", "MAC">>, NeedsMAC |-> TRUE, NeedsPass |-> FALSE],
      getencryptstring_v31 |-> [Name |-> "getencryptstring_v31",
                   Types |-> "getencryptstring_v31",
                   Template |-> <<"Uuid", "MAC">>, NeedsMAC |-> TRUE, NeedsPass |-> FALSE],
      activate |-> [Name |-> "activate", Types |-> "activate",
                   Template |-> <<"Uuid", "MAC", "Password">>,
                   NeedsMAC |-> TRUE, NeedsPass |-> TRUE],
      update |-> [Name |-> "update", Types |-> "update",
                   Template |-> <<"Uuid", "MAC", "Password", "IPv4Address", "CommandPort",
                                  "IPv4SubnetMask", "IPv4Gateway", "DHCP">>,
                   NeedsMAC |-> TRUE, NeedsPass |-> TRUE],
      reboot |-> [Name |-> "reboot", Types |-> "reboot",
                   Template |-> <<"Uuid", "MAC", "Password">>,
                   NeedsMAC |-> TRUE, NeedsPass |-> TRUE],
      restore |-> [Name |-> "restore", Types |-> "restore",
                   Template |-> <<"Uuid", "MAC", "Password">>,
                   NeedsMAC |-> TRUE, NeedsPass |-> TRUE],
      setmailbox |-> [Name |-> "setmailbox", Types |-> "SetMailBox",
                   Template |-> <<"Uuid", "MAC", "MailBox", "Password">>,
                   NeedsMAC |-> TRUE, NeedsPass |-> TRUE],
      ezvizunbind |-> [Name |-> "ezvizunbind", Types |-> "ezvizUnbind",
                   Template |-> <<"Uuid", "MAC", "Password">>,
                   NeedsMAC |-> TRUE, NeedsPass |-> TRUE],
      getbindlist |-> [Name |-> "getbindlist", Types |-> "getBindList",
                   Template |-> <<"Uuid", "MAC">>, NeedsMAC |-> TRUE, NeedsPass |-> FALSE],
      getqrcodes |-> [Name |-> "getqrcodes", Types |-> "GetQRcodes",
                   Template |-> <<"Uuid", "MAC">>, NeedsMAC |-> TRUE, NeedsPass |-> FALSE],
      resetpassword |-> [Name |-> "resetpassword", Types |-> "resetPassword",
                   Template |-> <<"Uuid", "MAC", "Code", "Password">>,
                   NeedsMAC |-> TRUE, NeedsPass |-> TRUE],
      securitycode |-> [Name |-> "securitycode", Types |-> "securityCode",
                   Template |-> <<"Uuid", "MAC", "SecurityCode", "Password">>,
                   NeedsMAC |-> TRUE, NeedsPass |-> TRUE] ]

\* Sprintf that loses the argument of the template's last element
SprintfShort(cmd, args) ==
    [Types |-> cmd.Types,
     Elems |-> [i \in 1..Len(cmd.Template) |->
                  IF i = Len(cmd.Template) /\ i > 1
                  THEN <<cmd.Template[i], << >> >>
                  ELSE <<cmd.Template[i], args[i]>>]]

\* fmt.Sprintf(cmd.Template, args...): the document with its elements filled
Sprintf(cmd, args) ==
    [Types |-> cmd.Types,
     Elems |-> [i \in 1..Len(cmd.Template) |-> <<cmd.Template[i], args[i]>>]]

\* BuildErr that leaves the command out of the message
BuildErrNoCommand(kind, cmdName) == [xml |-> << >>, err |-> <<kind, "">>]

\* a failed and a successful return of BuildCommandXML
BuildErr(kind, cmdName) == [xml |-> << >>, err |-> <<kind, cmdName>>]
BuildOk(doc) == [xml |-> <<doc>>, err |-> << >>]

\* UpdateDefaults that leaves an unset mask empty
UpdateDefaultsNoMask(opts) ==
    [opts EXCEPT !.NewIP = IF @ = "" THEN opts.TargetIP ELSE @,
                 !.NewPort = IF @ = 0 THEN 8000 ELSE @]

\* part_001:196-204: the defaults of update, assigned to the function's own
\* copy of the options
UpdateDefaults(opts) ==
    [opts EXCEPT !.NewIP = IF @ = "" THEN opts.TargetIP ELSE @,
                 !.NewMask = IF @ = "" THEN "255.255.255.0" ELSE @,
                 !.NewPort = IF @ = 0 THEN 8000 ELSE @]

\* part_001:155-211: the switch on the command name, for a catalog command
BuildSwitch(cmd, cmdName, opts, probeUUID) ==
    CASE cmdName \in {"inquiry", "inquiry_v32"} ->
            BuildOk(Sprintf(cmd, <<probeUUID>>))
      [] cmdName \in {"exchangecode", "getencryptstring", "getencryptstring_v31",
                      "getbindlist", "getqrcodes"} ->
            IF opts.TargetMAC = << >>
            THEN BuildErr("MAC address required", cmdName)
            ELSE BuildOk(Sprintf(cmd, <<probeUUID, opts.TargetMAC>>))
      [] cmdName \in {"activate", "reboot", "restore", "ezvizunbind"} ->
            IF opts.TargetMAC = << >>
            THEN BuildErr("MAC address required", cmdName)
            ELSE IF opts.Password = ""
            THEN BuildErr("password required", cmdName)
            ELSE BuildOk(Sprintf(cmd, <<probeUUID, opts.TargetMAC, opts.Password>>))
      [] cmdName \in {"resetpassword", "securitycode"} ->
            IF opts.TargetMAC = << >>
            THEN BuildErr("MAC address required", cmdName)
            ELSE IF opts.Code = ""
            THEN BuildErr("security code required", cmdName)
            ELSE IF opts.Password = ""
            THEN BuildErr("new password required", cmdName)
            ELSE BuildOk(Sprintf(cmd,
                     <<probeUUID, opts.TargetMAC, opts.Code, opts.Password>>))
      [] cmdName = "setmailbox" ->
            IF opts.TargetMAC = << >> \/ opts.Password = "" \/ opts.Email = ""
            THEN BuildErr("MAC, password, and email required", "setmailbox")
            ELSE BuildOk(Sprintf(cmd,
                     <<probeUUID, opts.TargetMAC, opts.Email, opts.Password>>))
      [] cmdName = "update" ->
            IF opts.TargetMAC = << >> \/ opts.Password = ""
            THEN BuildErr("MAC and password required", "update")
            ELSE LET dhcpStr == IF opts.DHCP THEN "true" ELSE "false"
                     own == UpdateDefaults(opts)
                 IN  BuildOk(Sprintf(cmd,
                         <<probeUUID, own.TargetMAC, own.Password, own.NewIP,
                           own.NewPort, own.NewMask, own.NewGateway, dhcpStr>>))
      [] OTHER -> BuildErr("not implemented", cmdName)

\* BuildCommandXML that validates the MAC before it looks the command up
BuildCommandXMLValidateFirst(cmdName, opts, probeUUID) ==
    IF opts.TargetMAC = << >>
    THEN BuildErr("MAC address required", cmdName)
    ELSE IF cmdName \notin DOMAIN Commands
    THEN BuildErr("unknown command", cmdName)
    ELSE BuildSwitch(Commands[cmdName], cmdName, opts, probeUUID)

\* part_001:147-212; probeUUID is the value uuid.New() yields in this call
BuildCommandXML(cmdName, opts, probeUUID) ==
    IF cmdName \notin DOMAIN Commands
    THEN BuildErr("unknown command", cmdName)
    ELSE BuildSwitch(Commands[cmdName], cmdName, opts, probeUUID)

(***************************************************************************)
(* Inputs of SendCommand and datagrams its sockets can receive             *)
(***************************************************************************)
\* a SendOptions value with every field unset
NoOpts ==
    [TargetIP |-> "", TargetMAC |-> << >>, Password |-> "", Code |-> "",
     NewIP |-> "", NewMask |-> "", NewGateway |-> "", NewPort |-> 0,
     DHCP |-> FALSE, Email |-> "", Timeout |-> 0]

SendCmdNames == {"inquiry", "reboot", "update", "nosuchcommand"}

SendOpts ==
    { [NoOpts EXCEPT !.TargetIP = ip, !.TargetMAC = mac, !.Password = pw] :
        ip \in {"", "0.0.0.0", "192.168.1.64"},
        mac \in {<< >>, <<"a", "a", "-", "0", "1">>, <<"A", "a", ":", "0", "1">>},
        pw \in {"", "secret"} }

\* the call the flood runs make
FloodOpts == [NoOpts EXCEPT !.TargetMAC = <<"a", "a", "-", "0", "1">>]

\* response texts: the target's MAC with colons and upper case, the target's
\* MAC with dashes and lower case, another device's MAC, bytes that are no
\* protocol XML at all, and a MAC that shares the target's first octet
RespColon == <<"<", "A", "A", ":", "0", "1", ">">>
RespDash == <<"<", "a", "a", "-", "0", "1", ">">>
RespOther == <<"<", "B", "B", ":", "0", "2", ">">>
RespGarbage == <<"#", "!">>
RespNear == <<"<", "A", "A", ":", "0", "2", ">">>
Responses == {RespColon, RespDash, RespOther, RespGarbage, RespNear}

\* what the network delivers in the flood runs
FloodResponses == {RespColon, RespOther}

\* a | ^m for one octet of an address and of a contiguous netmask
OrNot(a, m) == a - (a % (256 - m)) + (256 - m) - 1

\* part_001:321-324: the subnet-directed broadcast address of a local address
SubnetBroadcast(localIP, mask) == [i \in 1..4 |-> OrNot(localIP[i], mask[i])]

\* MatchesTarget that looks for the first octet of the target MAC only
MatchesTargetFirstOctet(response, tMAC) ==
    Contains(ToUpper(response), SubSeq(tMAC, 1, 2))

\* part_001:339-340: the test a broadcast task applies to a datagram
MatchesTarget(response, tMAC) ==
    \/ Contains(ToUpper(response), tMAC)
    \/ Contains(ToUpper(response), ReplaceAll(tMAC, ":", "-"))

(***************************************************************************)
(* Truncate                                                                *)
(***************************************************************************)
\* scanner.go:258-264; slicing with the negative bound maxLen-3 panics
Truncate(s, maxLen) ==
    IF Len(s) <= maxLen
    THEN [panic |-> FALSE, value |-> s]
    ELSE IF maxLen - 3 < 0
    THEN [panic |-> TRUE, value |-> << >>]
    ELSE [panic |-> FALSE,
          value |-> SubSeq(s, 1, maxLen - 3) \o <<".", ".", ".">>]

\* the strings of at most n characters over a two-letter alphabet
RECURSIVE StringsUpTo(_)
StringsUpTo(n) ==
    IF n = 0 THEN {<< >>}
    ELSE StringsUpTo(n - 1) \cup
         {Append(t, c) : t \in {u \in StringsUpTo(n - 1) : Len(u) = n - 1},
                         c \in {"a", "b"}}

(***************************************************************************)
(* ExpandCIDR: IPv4 addresses are four octets                              *)
(***************************************************************************)
RECURSIVE Pow2(_)
Pow2(n) == IF n = 0 THEN 1 ELSE 2 * Pow2(n - 1)

\* net.CIDRMask(ones, 32)
CIDRMask(ones) ==
    [i \in 1..4 |->
        LET b == IF ones - 8 * (i - 1) > 8 THEN 8
                 ELSE IF ones - 8 * (i - 1) < 0 THEN 0
                 ELSE ones - 8 * (i - 1)
        IN  256 - Pow2(8 - b)]

\* net.IPMask.Size: the number of leading ones of a contiguous mask
MaskOnes(mask) ==
    LET bits(m) == CHOOSE b \in 0..8 : 256 - Pow2(8 - b) = m
    IN  bits(mask[1]) + bits(mask[2]) + bits(mask[3]) + bits(mask[4])

\* a & m for one octet of an address and of a contiguous netmask
AndMask(a, m) == a - (a % (256 - m))

\* net.IP.Mask
Mask(ip, mask) == [i \in 1..4 |-> AndMask(ip[i], mask[i])]

\* net.IPNet.Contains
IPNetContains(ipnet, ip) ==
    \A i \in 1..4 : AndMask(ip[i], ipnet.Mask[i]) = ipnet.IP[i]

\* arp.go:229-236: the octets are bytes, so 255 + 1 is 0 and carries on
RECURSIVE incrementFrom(_, _)
incrementFrom(ip, j) ==
    IF j = 0 THEN ip
    ELSE LET next == [ip EXCEPT ![j] = (ip[j] + 1) % 256]
         IN  IF next[j] > 0 THEN next ELSE incrementFrom(next, j - 1)

incrementIP(ip) == incrementFrom(ip, Len(ip))

\* the addresses the prefixes handed to ExpandCIDR are written with
CIDRBases == { <<192, 168, 1, 0>>, <<192, 168, 1, 77>>, <<255, 255, 255, 200>> }

\* arguments of ExpandCIDR as net.ParseCIDR and net.ParseIP read them: a
\* prefix of 2 to MaxHostBits host bits, the prefix of length 0, a single
\* address, or no address
CIDRInputs ==
    { [kind |-> "cidr", IP |-> b, Ones |-> 32 - h] :
         b \in CIDRBases, h \in 2..MaxHostBits }
    \cup { [kind |-> "cidr", IP |-> <<192, 168, 1, 0>>, Ones |-> 0],
           [kind |-> "ip", IP |-> <<192, 168, 1, 100>>, Ones |-> 32],
           [kind |-> "invalid", IP |-> <<0, 0, 0, 0>>, Ones |-> 0] }

(***************************************************************************)
(* IsHikvisionMAC                                                          *)
(***************************************************************************)
\* strings.ToLower on one character
ToLowerChar(c) ==
    CASE c = "A" -> "a"
      [] c = "B" -> "b"
      [] c = "C" -> "c"
      [] c = "D" -> "d"
      [] c = "E" -> "e"
      [] c = "F" -> "f"
      [] OTHER -> c

\* strings.ToLower
ToLower(s) == [i \in 1..Len(s) |-> ToLowerChar(s[i])]

\* strings.Split for a one-character separator
RECURSIVE Split(_, _)
Split(s, sep) ==
    IF \A i \in 1..Len(s) : s[i] # sep
    THEN <<s>>
    ELSE LET i == CHOOSE k \in 1..Len(s) :
                     s[k] = sep /\ \A j \in 1..(k - 1) : s[j] # sep
         IN  <<SubSeq(s, 1, i - 1)>> \o Split(SubSeq(s, i + 1, Len(s)), sep)

\* strings.Join for a one-character separator
RECURSIVE Join(_, _)
Join(parts, sep) ==
    IF parts = << >> THEN << >>
    ELSE IF Len(parts) = 1 THEN parts[1]
    ELSE parts[1] \o <<sep>> \o Join(Tail(parts), sep)

\* arp.go:17-36
HikvisionOUIs ==
    << <<"0", "0", ":", "0", "d", ":", "c", "5">>,
       <<"2", "8", ":", "5", "7", ":", "b", "e">>,
       <<"4", "4", ":", "1", "9", ":", "b", "6">>,
       <<"5", "4", ":", "c", "4", ":", "1", "5">>,
       <<"8", "0", ":", "c", "c", ":", "9", "c">>,
       <<"a", "4", ":", "1", "4", ":", "3", "7">>,
       <<"b", "c", ":", "a", "d", ":", "2", "8">>,
       <<"c", "0", ":", "5", "6", ":", "e", "3">>,
       <<"c", "4", ":", "2", "f", ":", "9", "0">>,
       <<"e", "0", ":", "2", "f", ":", "6", "d">>,
       <<"f", "4", ":", "5", "2", ":", "1", "4">>,
       <<"4", "8", ":", "4", "0", ":", "a", "9">>,
       <<"8", "c", ":", "e", "7", ":", "4", "8">>,
       <<"4", "c", ":", "b", "d", ":", "8", "f">>,
       <<"1", "8", ":", "6", "8", ":", "c", "b">>,
       <<"4", "4", ":", "4", "7", ":", "c", "c">>,
       <<"e", "4", ":", "2", "4", ":", "6", "c">> >>

\* arp.go:136-153
IsHikvisionMAC(mac) ==
    LET lower == ReplaceAll(ToLower(mac), "-", ":")
        parts == Split(lower, ":")
    IN  IF Len(parts) < 3 THEN FALSE
        ELSE LET oui == Join(SubSeq(parts, 1, 3), ":")
             IN  \E i \in 1..Len(HikvisionOUIs) : oui = HikvisionOUIs[i]

\* the prefixes README.md lists under "Hikvision OUI (MAC Prefixes)"
ReadmeOUIs ==
    { <<"2", "8", ":", "5", "7", ":", "b", "e">>,
      <<"4", "c", ":", "b", "d", ":", "8", "f">>,
      <<"5", "4", ":", "c", "4", ":", "1", "5">>,
      <<"c", "0", ":", "5", "6", ":", "e", "3">>,
      <<"e", "0", ":", "5", "0", ":", "8", "b">> }

\* a prefix no document gives to Hikvision
OtherOUIs == { <<"a", "a", ":", "b", "b", ":", "c", "c">>,
               <<"0", "0", ":", "0", "0", ":", "0", "0">> }

\* the text of a MAC address with prefix oui, written with separator sep in
\* upper or lower case
FormatMAC(oui, sep, upper) ==
    LET text == oui \o <<":", "1", "1", ":", "2", "2", ":", "e", "e">>
        cased == IF upper THEN ToUpper(text) ELSE text
    IN  ReplaceAll(cased, ":", sep)

\* arguments of IsHikvisionMAC: MAC addresses of every prefix in both
\* notations and cases, each with the prefix it was written from, and two
\* texts that are no MAC address
MACInputs ==
    { [mac |-> FormatMAC(o, sep, up), oui |-> o] :
         o \in {HikvisionOUIs[i] : i \in 1..Len(HikvisionOUIs)}
                 \cup ReadmeOUIs \cup OtherOUIs,
         sep \in {":", "-"}, up \in BOOLEAN }
    \cup { [mac |-> <<"a", "a", ":", "b", "b">>, oui |-> << >>],
           [mac |-> <<"i", "n", "v", "a", "l", "i", "d">>, oui |-> << >>] }

(***************************************************************************)
(* cli.Run                                                                 *)
(***************************************************************************)
\* the subcommands Run dispatches to and the words that ask for the usage
Subcommands == {"discover", "discover:sadp", "scan", "probe", "send", "reset"}
HelpWords == {"help", "--help", "-h"}

\* Run that returns no error for a subcommand it does not know
RunLenient(args, subErr) ==
    IF Len(args) < 1
    THEN [usage |-> TRUE, ran |-> None, err |-> << >>]
    ELSE IF args[1] \in Subcommands
    THEN [usage |-> FALSE, ran |-> args[1], err |-> subErr]
    ELSE [usage |-> TRUE, ran |-> None, err |-> << >>]

\* cli.go:19-45; subErr is what the subcommand returns when one is run
Run(args, subErr) ==
    IF Len(args) < 1
    THEN [usage |-> TRUE, ran |-> None, err |-> << >>]
    ELSE IF args[1] \in Subcommands
    THEN [usage |-> FALSE, ran |-> args[1], err |-> subErr]
    ELSE IF args[1] \in HelpWords
    THEN [usage |-> TRUE, ran |-> None, err |-> << >>]
    ELSE [usage |-> TRUE, ran |-> None, err |-> <<"unknown command", args[1]>>]

\* the words of the command lines handed to Run
RunWords == Subcommands \cup HelpWords \cup {"bogus", "Help", ""}

\* command lines of at most two words
RunArgs == {<< >>} \cup {<<a>> : a \in RunWords}
              \cup {<<a, b>> : a \in RunWords, b \in {"--help", "-h", "10.0.0.0/24"}}

(***************************************************************************)
(* crypto.DecryptXOR                                                       *)
(***************************************************************************)
\* a ^ b on n-bit values
RECURSIVE XorBits(_, _, _)
XorBits(a, b, n) ==
    IF n = 0 THEN 0
    ELSE (((a % 2) + (b % 2)) % 2) + 2 * XorBits(a \div 2, b \div 2, n - 1)

\* the hexadecimal digits and their values, in both cases
HexDigits ==
    [c \in {"0", "1", "3", "4", "5", "7", "8", "b", "B", "f", "F"} |->
        CASE c = "0" -> 0 [] c = "1" -> 1 [] c = "3" -> 3 [] c = "4" -> 4
          [] c = "5" -> 5 [] c = "7" -> 7 [] c = "8" -> 8
          [] c \in {"b", "B"} -> 11 [] c \in {"f", "F"} -> 15]

\* encoding/hex.DecodeString on the digits above: an odd length or a
\* character that is no digit is an error; the empty text decodes to no bytes
HexDecode(text) ==
    IF Len(text) % 2 = 1 \/ \E i \in 1..Len(text) : text[i] \notin DOMAIN HexDigits
    THEN [ok |-> FALSE, bytes |-> << >>]
    ELSE [ok |-> TRUE,
          bytes |-> [i \in 1..(Len(text) \div 2) |->
                        16 * HexDigits[text[2 * i - 1]] + HexDigits[text[2 * i]]]]

\* crypto.go:41-53; i % len(key) with an empty key panics (division by
\* zero) as soon as the loop body runs
DecryptXOR(data, keyHex) ==
    LET key == HexDecode(keyHex)
    IN  IF ~key.ok
        THEN [panic |-> FALSE, err |-> TRUE, out |-> << >>]
        ELSE IF Len(data) > 0 /\ Len(key.bytes) = 0
        THEN [panic |-> TRUE, err |-> FALSE, out |-> << >>]
        ELSE [panic |-> FALSE, err |-> FALSE,
              out |-> [i \in 1..Len(data) |->
                          XorBits(data[i],
                                  key.bytes[((i - 1) % Len(key.bytes)) + 1], 8)]]

\* byte sequences of at most n bytes
RECURSIVE BytesUpTo(_)
BytesUpTo(n) ==
    IF n = 0 THEN {<< >>}
    ELSE BytesUpTo(n - 1) \cup
         {Append(t, b) : t \in {u \in BytesUpTo(n - 1) : Len(u) = n - 1},
                         b \in {0, 1, 115, 255}}

\* keys: valid hex of 0, 1 and 2 bytes in both cases, an odd number of
\* digits, and a text that is no hex
XORKeys ==
    { << >>, <<"7", "3">>, <<"7", "3", "8", "B">>, <<"f", "f", "0", "1">>,
      <<"5", "5", "4">>, <<"z", "z">>,
      <<"i", "n", "v", "a", "l", "i", "d">> }

VARIABLES
    \* ---- Scanner ----
    devices,        \* s.devices: normalized MAC -> pointer into heap
    heap,           \* the Device objects the registry points to
    deviceMutex,    \* s.deviceMutex: [writer, readers]
    \* ---- Discover() ----
    mainpc,         \* position of the Discover caller
    callNo,         \* Discover() calls started so far; the clock of time.Now()
    todo,           \* addresses the fan-out loop has still to start a task on
    wg,             \* the WaitGroup counter
    result,         \* the list Discover returned last (pointers, unordered)
    resultErr,      \* the error Discover returned last
    \* ---- discoverOnInterface, one task per local address ----
    pc,             \* position of each task
    device,         \* the task's parsed device: << >> or <<d>>
    exists,         \* the task's result of the map lookup
    reads,          \* datagrams the task's socket has delivered
    parsed,         \* history: normalized MACs parsed by tasks of this call
    conn,           \* the task's socket: "none", "open" or "closed"
    probes,         \* the WriteToUDP calls the task has made, in order
    deadlines,      \* the SetReadDeadline calls the task has made
    timeLeft,       \* clock ticks until the read deadline of the task's socket
    \* ---- SendCommand(cmdName, opts) ----
    cmdName,        \* the caller's command name
    opts,           \* the caller's SendOptions
    sendpc,         \* position of the SendCommand caller
    xmlCmd,         \* the built command: << >> or <<doc>>
    sendResult,     \* what SendCommand returned: [resp, err]
    ifaceEnums,     \* calls of net.Interfaces() made
    sockets,        \* sockets opened (DialUDP, ListenUDP)
    sent,           \* datagrams written: [from, to, data]
    uwrites,        \* conn.Write calls of the unicast path
    ureads,         \* conn.Read calls of the unicast path
    route,          \* history: the path SendCommand took after building
    lastRead,       \* history: what the unicast conn.Read yielded
    \* ---- sendCommandBroadcastWithMAC ----
    targetMAC,      \* the normalized target MAC
    btodo,          \* addresses the fan-out loop has still to start a task on
    bwg,            \* the WaitGroup counter
    bpc,            \* position of each broadcast task
    response,       \* the matching datagram a task is about to forward
    breads,         \* datagrams delivered to the broadcast sockets
    readBudget,     \* datagrams that arrive before the deadlines
    arriving,       \* the datagrams the network can deliver to the sockets
    responseChan,   \* buffered contents of responseChan
    chanClosed,     \* close(responseChan) has run
    closerpc,       \* position of the goroutine that closes the channel
    forwarded,      \* history: responses accepted by the channel, in order
    dropped,        \* history: responses dropped on a full channel
    panicked,       \* a send on the closed channel has panicked
    \* ---- a call of one of the stateless functions ----
    call,           \* the function called and its arguments
    frame,          \* the local variables of a call that runs a loop
    ret             \* what the call returned: << >> until it has returned

dvars == <<devices, heap, deviceMutex, mainpc, callNo, todo, wg, result,
           resultErr, pc, device, exists, reads, parsed, conn,
           probes, deadlines, timeLeft>>

svars == <<cmdName, opts, sendpc, xmlCmd, sendResult, ifaceEnums, sockets, sent,
           uwrites, ureads, route, lastRead, targetMAC, btodo, bwg, bpc, response, breads,
           readBudget, arriving, responseChan, chanClosed, closerpc, forwarded,
           dropped, panicked>>

pvars == <<call, frame, ret>>

vars == <<dvars, svars, pvars>>

(***************************************************************************)
(* NewScanner                                                              *)
(***************************************************************************)
NewScanner ==
    /\ devices = << >>
    /\ heap = << >>
    /\ deviceMutex = [writer |-> None, readers |-> 0]

\* no Discover call has been made
DiscoverIdle ==
    /\ mainpc = "idle"
    /\ callNo = 0
    /\ todo = << >>
    /\ wg = 0
    /\ result = {}
    /\ resultErr = None
    /\ pc = [t \in LocalIPs |-> "none"]
    /\ device = [t \in LocalIPs |-> << >>]
    /\ exists = [t \in LocalIPs |-> FALSE]
    /\ reads = [t \in LocalIPs |-> 0]
    /\ parsed = {}
    /\ conn = [t \in LocalIPs |-> "none"]
    /\ probes = [t \in LocalIPs |-> << >>]
    /\ deadlines = [t \in LocalIPs |-> 0]
    /\ timeLeft = [t \in LocalIPs |-> 0]

\* no SendCommand call has been made; c and o are the call to come
SendIdle(c, o, budget, net) ==
    /\ cmdName = c
    /\ opts = o
    /\ sendpc = "idle"
    /\ xmlCmd = << >>
    /\ sendResult = [resp |-> << >>, err |-> << >>]
    /\ ifaceEnums = 0
    /\ sockets = 0
    /\ sent = {}
    /\ uwrites = 0
    /\ ureads = 0
    /\ route = "none"
    /\ lastRead = [kind |-> "none", data |-> << >>]
    /\ targetMAC = << >>
    /\ btodo = << >>
    /\ bwg = 0
    /\ bpc = [t \in LocalIPs |-> "none"]
    /\ response = [t \in LocalIPs |-> << >>]
    /\ breads = 0
    /\ readBudget = budget
    /\ arriving = net
    /\ responseChan = << >>
    /\ chanClosed = FALSE
    /\ closerpc = "none"
    /\ forwarded = << >>
    /\ dropped = 0
    /\ panicked = FALSE

\* no stateless function has been called
NoCall ==
    /\ call = << >>
    /\ frame = << >>
    /\ ret = << >>

InitDiscover ==
    /\ NewScanner
    /\ DiscoverIdle
    /\ NoCall
    /\ SendIdle("inquiry", NoOpts, 0, {})

\* a Scanner and one SendCommand call with inputs from the input sets
InitSend ==
    /\ NewScanner
    /\ DiscoverIdle
    /\ NoCall
    /\ \E c \in SendCmdNames, o \in SendOpts : SendIdle(c, o, MaxBcastReads, Responses)

\* a Scanner and one broadcast send whose sockets receive many datagrams
InitFlood ==
    /\ NewScanner
    /\ DiscoverIdle
    /\ NoCall
    /\ SendIdle("inquiry", FloodOpts, FloodReads, FloodResponses)

(***************************************************************************)
(* Scanner.Discover, the caller                                            *)
(***************************************************************************)
\* scanner.go:86-92: entry; net.Interfaces() fails or lists the interfaces
DiscoverEnter ==
    /\ mainpc \in {"idle", "returned"}
    /\ callNo < MaxCalls
    /\ callNo' = callNo + 1
    /\ pc' = [t \in LocalIPs |-> "none"]
    /\ device' = [t \in LocalIPs |-> << >>]
    /\ exists' = [t \in LocalIPs |-> FALSE]
    /\ reads' = [t \in LocalIPs |-> 0]
    /\ parsed' = {}
    /\ conn' = [t \in LocalIPs |-> "none"]
    /\ probes' = [t \in LocalIPs |-> << >>]
    /\ deadlines' = [t \in LocalIPs |-> 0]
    /\ timeLeft' = [t \in LocalIPs |-> 0]
    /\ \/ /\ mainpc' = "returned"
          /\ result' = {}
          /\ resultErr' = "failed to get network interfaces"
          /\ todo' = << >>
       \/ /\ mainpc' = "loop"
          /\ todo' = UsableAddrs(Interfaces)
          /\ UNCHANGED <<result, resultErr>>
    /\ UNCHANGED <<devices, heap, deviceMutex, wg>>
    /\ UNCHANGED <<svars, pvars>>

\* scanner.go:115-119: wg.Add(1) and go func for the next address
Spawn ==
    /\ mainpc = "loop"
    /\ todo # << >>
    /\ wg' = wg + 1
    /\ pc' = [pc EXCEPT ![Head(todo)] = "start"]
    /\ todo' = Tail(todo)
    /\ UNCHANGED <<devices, heap, deviceMutex, mainpc, callNo, result, resultErr,
                   device, exists, reads, parsed>>
    /\ UNCHANGED <<conn, probes, deadlines, timeLeft, svars, pvars>>

\* WgWait without the join: the caller goes on while tasks still run
WgWaitNoJoin ==
    /\ mainpc = "loop"
    /\ todo = << >>
    /\ mainpc' = "rlock"
    /\ UNCHANGED <<devices, heap, deviceMutex, callNo, todo, wg, result, resultErr,
                   pc, device, exists, reads, parsed>>
    /\ UNCHANGED <<conn, probes, deadlines, timeLeft, svars, pvars>>

\* scanner.go:123: wg.Wait()
WgWait ==
    /\ mainpc = "loop"
    /\ todo = << >>
    /\ wg = 0
    /\ mainpc' = "rlock"
    /\ UNCHANGED <<devices, heap, deviceMutex, callNo, todo, wg, result, resultErr,
                   pc, device, exists, reads, parsed>>
    /\ UNCHANGED <<conn, probes, deadlines, timeLeft, svars, pvars>>

\* scanner.go:125: s.deviceMutex.RLock()
RLock ==
    /\ mainpc = "rlock"
    /\ deviceMutex.writer = None
    /\ deviceMutex' = [deviceMutex EXCEPT !.readers = @ + 1]
    /\ mainpc' = "snapshot"
    /\ UNCHANGED <<devices, heap, callNo, todo, wg, result, resultErr,
                   pc, device, exists, reads, parsed>>
    /\ UNCHANGED <<conn, probes, deadlines, timeLeft, svars, pvars>>

\* scanner.go:128-131: copy the registry's values into a fresh list
Snapshot ==
    /\ mainpc = "snapshot"
    /\ result' = {devices[m] : m \in DOMAIN devices}
    /\ resultErr' = None
    /\ mainpc' = "copied"
    /\ UNCHANGED <<devices, heap, deviceMutex, callNo, todo, wg,
                   pc, device, exists, reads, parsed>>
    /\ UNCHANGED <<conn, probes, deadlines, timeLeft, svars, pvars>>

\* scanner.go:126,133: the deferred RUnlock and the return
Return ==
    /\ mainpc = "copied"
    /\ deviceMutex' = [deviceMutex EXCEPT !.readers = @ - 1]
    /\ mainpc' = "returned"
    /\ UNCHANGED <<devices, heap, callNo, todo, wg, result, resultErr,
                   pc, device, exists, reads, parsed>>
    /\ UNCHANGED <<conn, probes, deadlines, timeLeft, svars, pvars>>

(***************************************************************************)
(* Scanner.discoverOnInterface, the task of local address t                *)
(***************************************************************************)
\* scanner.go:117: the deferred wg.Done() of the task
TaskDone(t) ==
    /\ pc' = [pc EXCEPT ![t] = "done"]
    /\ wg' = wg - 1

\* ListenUDP whose bind failure is recorded as the error of the Discover call
ListenUDPFatal(t) ==
    /\ pc[t] = "start"
    /\ \/ /\ pc' = [pc EXCEPT ![t] = "send"]
          /\ conn' = [conn EXCEPT ![t] = "open"]
          /\ wg' = wg
          /\ UNCHANGED resultErr
       \/ /\ TaskDone(t)
          /\ resultErr' = "failed to create UDP socket"
          /\ UNCHANGED conn
    /\ UNCHANGED <<devices, heap, deviceMutex, mainpc, callNo, todo, result,
                   device, exists, reads, parsed>>
    /\ UNCHANGED <<probes, deadlines, timeLeft, svars, pvars>>

\* scanner.go:139-145: net.ListenUDP binds the socket or fails
ListenUDP(t) ==
    /\ pc[t] = "start"
    /\ \/ /\ pc' = [pc EXCEPT ![t] = "send"]
          /\ conn' = [conn EXCEPT ![t] = "open"]
          /\ wg' = wg
       \/ /\ TaskDone(t)
          /\ UNCHANGED conn
    /\ UNCHANGED <<devices, heap, deviceMutex, mainpc, callNo, todo, result,
                   resultErr, device, exists, reads, parsed>>
    /\ UNCHANGED <<probes, deadlines, timeLeft, svars, pvars>>

\* scanner.go:146-154: the two probe packets of a task share one UUID
probePackets(probeUUID) ==
    << [Uuid |-> probeUUID, Types |-> "inquiry"],
       [Uuid |-> probeUUID, Types |-> "inquiry_v32"] >>

\* ProbeWrites that gives up at the first write that fails
ProbeWritesUntilError(packets, ok) ==
    LET all == [i \in 1..4 |->
                  [data |-> packets[((i - 1) % 2) + 1],
                   to |-> <<IF i <= 2 THEN <<239, 255, 255, 250>>
                            ELSE <<255, 255, 255, 255>>, Port>>]]
        made == IF \A i \in 1..4 : ok[i] THEN 4
                ELSE CHOOSE k \in 1..4 : ~ok[k] /\ \A j \in 1..(k - 1) : ok[j]
    IN  SubSeq(all, 1, made)

\* scanner.go:156-166: the WriteToUDP calls of a task: each packet to the
\* multicast group, then each packet to the limited broadcast address; ok[i]
\* tells whether the i-th write succeeded, which the code only logs
ProbeWrites(packets, ok) ==
    [i \in 1..4 |->
        [data |-> packets[((i - 1) % 2) + 1],
         to |-> <<IF i <= 2 THEN <<239, 255, 255, 250>>
                  ELSE <<255, 255, 255, 255>>, Port>>]]

\* scanner.go:147-166: the UUID is drawn and the probes are written; any of
\* the writes may fail
SendProbes(t) ==
    /\ pc[t] = "send"
    /\ \E ok \in [1..4 -> BOOLEAN] :
          probes' = [probes EXCEPT ![t] =
                        ProbeWrites(probePackets([call |-> callNo, ip |-> t]), ok)]
    /\ pc' = [pc EXCEPT ![t] = "deadline"]
    /\ UNCHANGED <<devices, heap, deviceMutex, mainpc, callNo, todo, wg, result,
                   resultErr, device, exists, reads, parsed>>
    /\ UNCHANGED <<conn, deadlines, timeLeft, svars, pvars>>

\* scanner.go:167: conn.SetReadDeadline(time.Now().Add(s.timeout))
SetReadDeadline(t) ==
    /\ pc[t] = "deadline"
    /\ deadlines' = [deadlines EXCEPT ![t] = @ + 1]
    /\ timeLeft' = [timeLeft EXCEPT ![t] = DeadlineTicks]
    /\ pc' = [pc EXCEPT ![t] = "read"]
    /\ UNCHANGED <<devices, heap, deviceMutex, mainpc, callNo, todo, wg, result,
                   resultErr, device, exists, reads, parsed>>
    /\ UNCHANGED <<conn, probes, svars, pvars>>

\* scanner.go:167,171: the clock advances towards the deadline of the socket
TimePasses(t) ==
    /\ conn[t] = "open"
    /\ timeLeft[t] > 0
    /\ timeLeft' = [timeLeft EXCEPT ![t] = @ - 1]
    /\ UNCHANGED <<devices, heap, deviceMutex, mainpc, callNo, todo, wg, result,
                   resultErr, pc, device, exists, reads, parsed>>
    /\ UNCHANGED <<conn, probes, deadlines, svars, pvars>>

\* ReadFromUDP followed by a SetReadDeadline call that pushes the deadline
\* back for every datagram
ReadFromUDPExtending(t, d) ==
    /\ pc[t] = "read"
    /\ timeLeft[t] > 0
    /\ reads' = [reads EXCEPT ![t] = IF @ < MaxReads THEN @ + 1 ELSE @]
    /\ timeLeft' = [timeLeft EXCEPT ![t] = DeadlineTicks]
    /\ deadlines' = [deadlines EXCEPT ![t] = @ + 1]
    /\ LET dev == parseResponse(d)
       IN  IF dev = << >>
           THEN UNCHANGED <<pc, device, parsed>>
           ELSE /\ device' = [device EXCEPT ![t] =
                        << [dev[1] EXCEPT !.AdapterIP = t, !.ReceivedTime = callNo] >>]
                /\ parsed' = parsed \cup {dev[1].MAC}
                /\ pc' = [pc EXCEPT ![t] = "lock"]
    /\ UNCHANGED <<devices, heap, deviceMutex, mainpc, callNo, todo, wg, result,
                   resultErr, exists>>
    /\ UNCHANGED <<conn, probes, svars, pvars>>

\* scanner.go:171-182: one datagram that arrived before the deadline is read,
\* parsed and stamped; reads counts the datagrams up to MaxReads
ReadFromUDP(t, d) ==
    /\ pc[t] = "read"
    /\ timeLeft[t] > 0
    /\ reads' = [reads EXCEPT ![t] = IF @ < MaxReads THEN @ + 1 ELSE @]
    /\ LET dev == parseResponse(d)
       IN  IF dev = << >>
           THEN UNCHANGED <<pc, device, parsed>>
           ELSE /\ device' = [device EXCEPT ![t] =
                        << [dev[1] EXCEPT !.AdapterIP = t, !.ReceivedTime = callNo] >>]
                /\ parsed' = parsed \cup {dev[1].MAC}
                /\ pc' = [pc EXCEPT ![t] = "lock"]
    /\ UNCHANGED <<devices, heap, deviceMutex, mainpc, callNo, todo, wg, result,
                   resultErr, exists>>
    /\ UNCHANGED <<conn, probes, deadlines, timeLeft, svars, pvars>>

\* scanner.go:171-174,145,117: the read fails (deadline or error), the task
\* ends and closes its socket
ReadError(t) ==
    /\ pc[t] = "read"
    /\ TaskDone(t)
    /\ conn' = [conn EXCEPT ![t] = "closed"]
    /\ timeLeft' = [timeLeft EXCEPT ![t] = 0]
    /\ UNCHANGED <<devices, heap, deviceMutex, mainpc, callNo, todo, result,
                   resultErr, device, exists, reads, parsed>>
    /\ UNCHANGED <<probes, deadlines, svars, pvars>>

\* Lock that does not wait for the current holder
LockNoWait(t) ==
    /\ pc[t] = "lock"
    /\ deviceMutex' = [deviceMutex EXCEPT !.writer = t]
    /\ pc' = [pc EXCEPT ![t] = "check"]
    /\ UNCHANGED <<devices, heap, mainpc, callNo, todo, wg, result, resultErr,
                   device, exists, reads, parsed>>
    /\ UNCHANGED <<conn, probes, deadlines, timeLeft, svars, pvars>>

\* scanner.go:184: s.deviceMutex.Lock()
Lock(t) ==
    /\ pc[t] = "lock"
    /\ deviceMutex.writer = None
    /\ deviceMutex.readers = 0
    /\ deviceMutex' = [deviceMutex EXCEPT !.writer = t]
    /\ pc' = [pc EXCEPT ![t] = "check"]
    /\ UNCHANGED <<devices, heap, mainpc, callNo, todo, wg, result, resultErr,
                   device, exists, reads, parsed>>
    /\ UNCHANGED <<conn, probes, deadlines, timeLeft, svars, pvars>>

\* scanner.go:185: the lookup of the device's MAC in the registry
Check(t) ==
    /\ pc[t] = "check"
    /\ exists' = [exists EXCEPT ![t] = device[t][1].MAC \in DOMAIN devices]
    /\ pc' = [pc EXCEPT ![t] = "insert"]
    /\ UNCHANGED <<devices, heap, deviceMutex, mainpc, callNo, todo, wg, result,
                   resultErr, device, reads, parsed>>
    /\ UNCHANGED <<conn, probes, deadlines, timeLeft, svars, pvars>>

\* Insert that stores the device whether or not its MAC was found
InsertOverwrite(t) ==
    /\ pc[t] = "insert"
    /\ heap' = Append(heap, device[t][1])
    /\ devices' = [m \in DOMAIN devices \cup {device[t][1].MAC} |->
                      IF m = device[t][1].MAC THEN Len(heap) + 1
                      ELSE devices[m]]
    /\ pc' = [pc EXCEPT ![t] = "unlock"]
    /\ UNCHANGED <<deviceMutex, mainpc, callNo, todo, wg, result, resultErr,
                   device, exists, reads, parsed>>
    /\ UNCHANGED <<conn, probes, deadlines, timeLeft, svars, pvars>>

\* scanner.go:185-188: the device is stored unless its MAC was found
Insert(t) ==
    /\ pc[t] = "insert"
    /\ IF exists[t]
       THEN UNCHANGED <<devices, heap>>
       ELSE /\ heap' = Append(heap, device[t][1])
            /\ devices' = [m \in DOMAIN devices \cup {device[t][1].MAC} |->
                              IF m = device[t][1].MAC THEN Len(heap) + 1
                              ELSE devices[m]]
    /\ pc' = [pc EXCEPT ![t] = "unlock"]
    /\ UNCHANGED <<deviceMutex, mainpc, callNo, todo, wg, result, resultErr,
                   device, exists, reads, parsed>>
    /\ UNCHANGED <<conn, probes, deadlines, timeLeft, svars, pvars>>

\* scanner.go:189: s.deviceMutex.Unlock()
Unlock(t) ==
    /\ pc[t] = "unlock"
    /\ deviceMutex' = [deviceMutex EXCEPT !.writer = None]
    /\ device' = [device EXCEPT ![t] = << >>]
    /\ pc' = [pc EXCEPT ![t] = "read"]
    /\ UNCHANGED <<devices, heap, mainpc, callNo, todo, wg, result, resultErr,
                   exists, reads, parsed>>
    /\ UNCHANGED <<conn, probes, deadlines, timeLeft, svars, pvars>>

NextDiscover ==
    \/ DiscoverEnter
    \/ Spawn
    \/ WgWait
    \/ RLock
    \/ Snapshot
    \/ Return
    \/ \E t \in LocalIPs : ListenUDP(t)
    \/ \E t \in LocalIPs : SendProbes(t)
    \/ \E t \in LocalIPs : SetReadDeadline(t)
    \/ \E t \in LocalIPs : \E d \in Datagrams : ReadFromUDP(t, d)
    \/ \E t \in LocalIPs : ReadError(t)
    \/ \E t \in LocalIPs : Lock(t)
    \/ \E t \in LocalIPs : Check(t)
    \/ \E t \in LocalIPs : Insert(t)
    \/ \E t \in LocalIPs : Unlock(t)

\* the deadline of a socket is left open: a read can fail at any moment
SpecDiscover == InitDiscover /\ [][NextDiscover]_vars

\* Discover with the clock that brings the deadlines
NextTimedDiscover ==
    \/ NextDiscover
    \/ \E t \in LocalIPs : TimePasses(t)

\* scanner.go:86-133: the steps of the Discover caller once it has entered
CallerStep ==
    \/ Spawn
    \/ WgWait
    \/ RLock
    \/ Snapshot
    \/ Return

\* scanner.go:136-192: the steps a task takes by itself: every statement but
\* a read that is still waiting for a datagram or for the deadline
TaskStep(t) ==
    \/ ListenUDP(t)
    \/ SendProbes(t)
    \/ SetReadDeadline(t)
    \/ (timeLeft[t] = 0 /\ ReadError(t))
    \/ Lock(t)
    \/ Check(t)
    \/ Insert(t)
    \/ Unlock(t)

\* a Scanner on which every Discover call but the last has been made and
\* found net.Interfaces() failing (scanner.go:89-92)
InitLastDiscover ==
    /\ NewScanner
    /\ NoCall
    /\ SendIdle("inquiry", NoOpts, 0, {})
    /\ callNo = MaxCalls - 1
    /\ mainpc = IF callNo = 0 THEN "idle" ELSE "returned"
    /\ resultErr = IF callNo = 0 THEN None ELSE "failed to get network interfaces"
    /\ todo = << >>
    /\ wg = 0
    /\ result = {}
    /\ pc = [t \in LocalIPs |-> "none"]
    /\ device = [t \in LocalIPs |-> << >>]
    /\ exists = [t \in LocalIPs |-> FALSE]
    /\ reads = [t \in LocalIPs |-> 0]
    /\ parsed = {}
    /\ conn = [t \in LocalIPs |-> "none"]
    /\ probes = [t \in LocalIPs |-> << >>]
    /\ deadlines = [t \in LocalIPs |-> 0]
    /\ timeLeft = [t \in LocalIPs |-> 0]

\* one Discover call under a scheduler that runs every goroutine that can
\* take a step and a clock that advances; no datagram has to arrive and no
\* read has to fail before the deadline
FairSpecDiscover ==
    /\ InitLastDiscover
    /\ [][NextTimedDiscover]_vars
    /\ WF_vars(CallerStep)
    /\ \A t \in LocalIPs : WF_vars(TaskStep(t))
    /\ \A t \in LocalIPs : WF_vars(TimePasses(t))

(***************************************************************************)
(* Scanner.SendCommand, the caller                                         *)
(***************************************************************************)
\* the caller returns
SendReturn(resp, err) ==
    /\ sendpc' = "returned"
    /\ sendResult' = [resp |-> resp, err |-> err]

\* SendCommand that treats only "0.0.0.0", not the empty string, as no target IP
SendCommandAnyOnly ==
    /\ sendpc = "idle"
    /\ LET built == BuildCommandXML(cmdName, opts, "uuid-1")
       IN  IF built.err # << >>
           THEN /\ SendReturn(<< >>, built.err)
                /\ route' = "error"
                /\ UNCHANGED xmlCmd
           ELSE /\ xmlCmd' = built.xml
                /\ IF opts.TargetIP = "0.0.0.0"
                   THEN IF opts.TargetMAC = << >>
                        THEN /\ SendReturn(<< >>,
                                  <<"MAC address required when target IP is 0.0.0.0">>)
                             /\ route' = "error"
                        ELSE /\ sendpc' = "bcast"
                             /\ route' = "broadcast"
                             /\ UNCHANGED sendResult
                   ELSE /\ sendpc' = "dial"
                        /\ route' = "unicast"
                        /\ UNCHANGED sendResult
    /\ UNCHANGED <<cmdName, opts, ifaceEnums, sockets, sent, uwrites, ureads,
                   targetMAC, btodo, bwg, bpc, response, breads, readBudget,
                   arriving, responseChan, chanClosed, closerpc, forwarded, dropped,
                   panicked>>
    /\ UNCHANGED <<lastRead, dvars, pvars>>

\* SendCommand that routes the call before it looks at the build error
SendCommandRouteFirst ==
    /\ sendpc = "idle"
    /\ LET built == BuildCommandXML(cmdName, opts, "uuid-1")
       IN  /\ xmlCmd' = built.xml
           /\ IF opts.TargetIP = "0.0.0.0" \/ opts.TargetIP = ""
              THEN IF built.err # << >>
                   THEN /\ SendReturn(<< >>, built.err)
                        /\ route' = "error"
                   ELSE IF opts.TargetMAC = << >>
                   THEN /\ SendReturn(<< >>,
                             <<"MAC address required when target IP is 0.0.0.0">>)
                        /\ route' = "error"
                   ELSE /\ sendpc' = "bcast"
                        /\ route' = "broadcast"
                        /\ UNCHANGED sendResult
              ELSE /\ sendpc' = "dial"
                   /\ route' = "unicast"
                   /\ UNCHANGED sendResult
    /\ UNCHANGED <<cmdName, opts, ifaceEnums, sockets, sent, uwrites, ureads,
                   targetMAC, btodo, bwg, bpc, response, breads, readBudget,
                   arriving, responseChan, chanClosed, closerpc, forwarded, dropped,
                   panicked>>
    /\ UNCHANGED <<lastRead, dvars, pvars>>

\* SendCommand whose builder works on the caller's options, not on a copy
SendCommandSharedOpts ==
    /\ sendpc = "idle"
    /\ LET built == BuildCommandXML(cmdName, opts, "uuid-1")
       IN  IF built.err # << >>
           THEN /\ SendReturn(<< >>, built.err)
                /\ route' = "error"
                /\ UNCHANGED <<xmlCmd, opts>>
           ELSE /\ xmlCmd' = built.xml
                /\ opts' = IF cmdName = "update" THEN UpdateDefaults(opts) ELSE opts
                /\ IF opts.TargetIP = "0.0.0.0" \/ opts.TargetIP = ""
                   THEN IF opts.TargetMAC = << >>
                        THEN /\ SendReturn(<< >>,
                                  <<"MAC address required when target IP is 0.0.0.0">>)
                             /\ route' = "error"
                        ELSE /\ sendpc' = "bcast"
                             /\ route' = "broadcast"
                             /\ UNCHANGED sendResult
                   ELSE /\ sendpc' = "dial"
                        /\ route' = "unicast"
                        /\ UNCHANGED sendResult
    /\ UNCHANGED <<cmdName, ifaceEnums, sockets, sent, uwrites, ureads,
                   targetMAC, btodo, bwg, bpc, response, breads, readBudget,
                   arriving, responseChan, chanClosed, closerpc, forwarded, dropped,
                   panicked>>
    /\ UNCHANGED <<lastRead, dvars, pvars>>

\* part_001:215-229: the command is built, then the call is routed
SendCommand ==
    /\ sendpc = "idle"
    /\ LET built == BuildCommandXML(cmdName, opts, "uuid-1")
       IN  IF built.err # << >>
           THEN /\ SendReturn(<< >>, built.err)
                /\ route' = "error"
                /\ UNCHANGED xmlCmd
           ELSE /\ xmlCmd' = built.xml
                /\ IF opts.TargetIP = "0.0.0.0" \/ opts.TargetIP = ""
                   THEN IF opts.TargetMAC = << >>
                        THEN /\ SendReturn(<< >>,
                                  <<"MAC address required when target IP is 0.0.0.0">>)
                             /\ route' = "error"
                        ELSE /\ sendpc' = "bcast"
                             /\ route' = "broadcast"
                             /\ UNCHANGED sendResult
                   ELSE /\ sendpc' = "dial"
                        /\ route' = "unicast"
                        /\ UNCHANGED sendResult
    /\ UNCHANGED <<cmdName, opts, ifaceEnums, sockets, sent, uwrites, ureads,
                   targetMAC, btodo, bwg, bpc, response, breads, readBudget,
                   arriving, responseChan, chanClosed, closerpc, forwarded, dropped,
                   panicked>>
    /\ UNCHANGED <<lastRead, dvars, pvars>>

\* part_001:231-244: net.DialUDP opens the socket or fails
DialUDP ==
    /\ sendpc = "dial"
    /\ \/ /\ sockets' = sockets + 1
          /\ sendpc' = "write"
          /\ UNCHANGED sendResult
       \/ /\ SendReturn(<< >>, <<"failed to connect">>)
          /\ UNCHANGED sockets
    /\ UNCHANGED <<cmdName, opts, xmlCmd, ifaceEnums, sent, uwrites, ureads,
                   targetMAC, btodo, bwg, bpc, response, breads, readBudget, arriving,
                   responseChan, chanClosed, closerpc, forwarded, dropped, panicked>>
    /\ UNCHANGED <<route, lastRead, dvars, pvars>>

\* part_001:246-249: conn.Write sends the command or fails
Write ==
    /\ sendpc = "write"
    /\ uwrites' = uwrites + 1
    /\ \/ /\ sent' = sent \cup {[from |-> "dial", to |-> <<opts.TargetIP, Port>>,
                                 data |-> xmlCmd[1]]}
          /\ sendpc' = "read"
          /\ UNCHANGED sendResult
       \/ /\ SendReturn(<< >>, <<"failed to send command">>)
          /\ UNCHANGED sent
    /\ UNCHANGED <<cmdName, opts, xmlCmd, ifaceEnums, sockets, ureads,
                   targetMAC, btodo, bwg, bpc, response, breads, readBudget, arriving,
                   responseChan, chanClosed, closerpc, forwarded, dropped, panicked>>
    /\ UNCHANGED <<route, lastRead, dvars, pvars>>

\* what conn.Read can yield: a datagram, the deadline, another error
ReadOutcomes ==
    {[kind |-> "data", data |-> d] : d \in Responses}
        \cup {[kind |-> "deadline", data |-> << >>], [kind |-> "error", data |-> << >>]}

\* Read that reports the deadline like any other read failure
ReadNoTimeoutCase(o) ==
    /\ sendpc = "read"
    /\ ureads' = ureads + 1
    /\ lastRead' = o
    /\ IF o.kind = "data"
       THEN SendReturn(<<o.data>>, << >>)
       ELSE SendReturn(<< >>, <<"failed to read response">>)
    /\ UNCHANGED <<cmdName, opts, xmlCmd, ifaceEnums, sockets, sent, uwrites,
                   targetMAC, btodo, bwg, bpc, response, breads, readBudget,
                   arriving, responseChan, chanClosed, closerpc, forwarded, dropped,
                   panicked>>
    /\ UNCHANGED <<route, dvars, pvars>>

\* part_001:251-260: conn.Read yields a datagram, the deadline, or an error
Read(o) ==
    /\ sendpc = "read"
    /\ ureads' = ureads + 1
    /\ lastRead' = o
    /\ IF o.kind = "data"
       THEN SendReturn(<<o.data>>, << >>)
       ELSE IF o.kind = "deadline"
       THEN SendReturn(<< >>, <<"no response (timeout)">>)
       ELSE SendReturn(<< >>, <<"failed to read response">>)
    /\ UNCHANGED <<cmdName, opts, xmlCmd, ifaceEnums, sockets, sent, uwrites,
                   targetMAC, btodo, bwg, bpc, response, breads, readBudget,
                   arriving, responseChan, chanClosed, closerpc, forwarded, dropped,
                   panicked>>
    /\ UNCHANGED <<route, dvars, pvars>>

(***************************************************************************)
(* Scanner.sendCommandBroadcastWithMAC, the caller                         *)
(***************************************************************************)
\* part_001:263-280: the target MAC is normalized, the interfaces are listed
BroadcastEnter ==
    /\ sendpc = "bcast"
    /\ targetMAC' = ToUpper(ReplaceAll(opts.TargetMAC, "-", ":"))
    /\ ifaceEnums' = ifaceEnums + 1
    /\ \/ /\ SendReturn(<< >>, <<"failed to get network interfaces">>)
          /\ UNCHANGED btodo
       \/ /\ sendpc' = "bloop"
          /\ btodo' = UsableAddrs(Interfaces)
          /\ UNCHANGED sendResult
    /\ UNCHANGED <<cmdName, opts, xmlCmd, sockets, sent, uwrites, ureads,
                   bwg, bpc, response, breads, readBudget, arriving,
                   responseChan, chanClosed, closerpc, forwarded, dropped, panicked>>
    /\ UNCHANGED <<route, lastRead, dvars, pvars>>

\* part_001:303-304,347: wg.Add(1) and go func for the next address
BroadcastSpawn ==
    /\ sendpc = "bloop"
    /\ btodo # << >>
    /\ bwg' = bwg + 1
    /\ bpc' = [bpc EXCEPT ![Head(btodo)] = "start"]
    /\ btodo' = Tail(btodo)
    /\ UNCHANGED <<cmdName, opts, sendpc, xmlCmd, sendResult, ifaceEnums, sockets,
                   sent, uwrites, ureads, targetMAC, response, breads,
                   readBudget, arriving,
                   responseChan, chanClosed, closerpc, forwarded, dropped, panicked>>
    /\ UNCHANGED <<route, lastRead, dvars, pvars>>

\* part_001:351-354: the closing goroutine is started, the caller begins to range
StartCloser ==
    /\ sendpc = "bloop"
    /\ btodo = << >>
    /\ closerpc' = "wait"
    /\ sendpc' = "range"
    /\ UNCHANGED <<cmdName, opts, xmlCmd, sendResult, ifaceEnums, sockets,
                   sent, uwrites, ureads, targetMAC, btodo, bwg, bpc, response,
                   breads,
                   readBudget, arriving, responseChan, chanClosed, forwarded, dropped,
                   panicked>>
    /\ UNCHANGED <<route, lastRead, dvars, pvars>>

\* CloseChan that closes the channel without waiting for the tasks
CloseChanNoWait ==
    /\ closerpc = "wait"
    /\ chanClosed' = TRUE
    /\ closerpc' = "done"
    /\ UNCHANGED <<cmdName, opts, sendpc, xmlCmd, sendResult, ifaceEnums, sockets,
                   sent, uwrites, ureads, targetMAC, btodo, bwg, bpc, response,
                   breads, readBudget, arriving, responseChan, forwarded, dropped,
                   panicked>>
    /\ UNCHANGED <<route, lastRead, dvars, pvars>>

\* CloseChan as a deferred close of the caller: it runs when the caller returns
CloseChanOnReturn ==
    /\ closerpc = "wait"
    /\ sendpc = "returned"
    /\ chanClosed' = TRUE
    /\ closerpc' = "done"
    /\ UNCHANGED <<cmdName, opts, sendpc, xmlCmd, sendResult, ifaceEnums, sockets,
                   sent, uwrites, ureads, targetMAC, btodo, bwg, bpc, response,
                   breads, readBudget, arriving, responseChan, forwarded, dropped,
                   panicked>>
    /\ UNCHANGED <<route, lastRead, dvars, pvars>>

\* part_001:352-353: wg.Wait() returns and the channel is closed
CloseChan ==
    /\ closerpc = "wait"
    /\ bwg = 0
    /\ chanClosed' = TRUE
    /\ closerpc' = "done"
    /\ UNCHANGED <<cmdName, opts, sendpc, xmlCmd, sendResult, ifaceEnums, sockets,
                   sent, uwrites, ureads, targetMAC, btodo, bwg, bpc, response,
                   breads,
                   readBudget, arriving, responseChan, forwarded, dropped, panicked>>
    /\ UNCHANGED <<route, lastRead, dvars, pvars>>

\* part_001:356-358: the range loop receives a response and returns it
Receive ==
    /\ sendpc = "range"
    /\ responseChan # << >>
    /\ SendReturn(<<Head(responseChan)>>, << >>)
    /\ responseChan' = Tail(responseChan)
    /\ UNCHANGED <<cmdName, opts, xmlCmd, ifaceEnums, sockets,
                   sent, uwrites, ureads, targetMAC, btodo, bwg, bpc, response,
                   breads,
                   readBudget, arriving, chanClosed, closerpc, forwarded, dropped,
                   panicked>>
    /\ UNCHANGED <<route, lastRead, dvars, pvars>>

\* part_001:356,360: the channel is closed and empty, the range loop ends
RangeEnd ==
    /\ sendpc = "range"
    /\ responseChan = << >>
    /\ chanClosed
    /\ SendReturn(<< >>, <<"no response from device with MAC (timeout)", opts.TargetMAC>>)
    /\ UNCHANGED <<cmdName, opts, xmlCmd, ifaceEnums, sockets,
                   sent, uwrites, ureads, targetMAC, btodo, bwg, bpc, response,
                   breads,
                   readBudget, arriving, responseChan, chanClosed, closerpc, forwarded,
                   dropped, panicked>>
    /\ UNCHANGED <<route, lastRead, dvars, pvars>>

(***************************************************************************)
(* The broadcast task of local address t (part_001:304-347)                *)
(***************************************************************************)
\* part_001:305: the deferred wg.Done() of the task
BroadcastTaskDone(t) ==
    /\ bpc' = [bpc EXCEPT ![t] = "done"]
    /\ bwg' = bwg - 1

\* part_001:309-313: net.ListenUDP binds the socket or fails
BroadcastListenUDP(t) ==
    /\ bpc[t] = "start"
    /\ \/ /\ bpc' = [bpc EXCEPT ![t] = "send"]
          /\ sockets' = sockets + 1
          /\ UNCHANGED bwg
       \/ /\ BroadcastTaskDone(t)
          /\ UNCHANGED sockets
    /\ UNCHANGED <<cmdName, opts, sendpc, xmlCmd, sendResult, ifaceEnums,
                   sent, uwrites, ureads, targetMAC, btodo, response, breads,

                   readBudget, arriving, responseChan, chanClosed, closerpc, forwarded, dropped,
                   panicked>>
    /\ UNCHANGED <<route, lastRead, dvars, pvars>>

\* part_001:315-328: the command goes to the multicast group, the limited
\* broadcast and the subnet broadcast address; the read deadline is set
BroadcastSend(t) ==
    /\ bpc[t] = "send"
    /\ sent' = sent \cup
          { [from |-> t, to |-> <<dst, Port>>, data |-> xmlCmd[1]] :
              dst \in { <<239, 255, 255, 250>>, <<255, 255, 255, 255>>,
                        SubnetBroadcast(AddrRecord(t).Octets, AddrRecord(t).Mask) } }
    /\ bpc' = [bpc EXCEPT ![t] = "read"]
    /\ UNCHANGED <<cmdName, opts, sendpc, xmlCmd, sendResult, ifaceEnums, sockets,
                   uwrites, ureads, targetMAC, btodo, bwg, response, breads,

                   readBudget, arriving, responseChan, chanClosed, closerpc, forwarded, dropped,
                   panicked>>
    /\ UNCHANGED <<route, lastRead, dvars, pvars>>

\* part_001:332-340: a datagram is read and tested against the target MAC
BroadcastRead(t, d) ==
    /\ bpc[t] = "read"
    /\ breads < readBudget
    /\ d \in arriving
    /\ breads' = breads + 1
    /\ IF MatchesTarget(d, targetMAC)
       THEN /\ response' = [response EXCEPT ![t] = <<d>>]
            /\ bpc' = [bpc EXCEPT ![t] = "forward"]
       ELSE UNCHANGED <<response, bpc>>
    /\ UNCHANGED <<cmdName, opts, sendpc, xmlCmd, sendResult, ifaceEnums, sockets,
                   sent, uwrites, ureads, targetMAC, btodo, bwg,

                   readBudget, arriving, responseChan, chanClosed, closerpc, forwarded, dropped,
                   panicked>>
    /\ UNCHANGED <<route, lastRead, dvars, pvars>>

\* part_001:332-335,313,305: the read fails (deadline or error), the task ends
BroadcastReadError(t) ==
    /\ bpc[t] = "read"
    /\ BroadcastTaskDone(t)
    /\ UNCHANGED <<cmdName, opts, sendpc, xmlCmd, sendResult, ifaceEnums, sockets,
                   sent, uwrites, ureads, targetMAC, btodo, response, breads,

                   readBudget, arriving, responseChan, chanClosed, closerpc, forwarded, dropped,
                   panicked>>
    /\ UNCHANGED <<route, lastRead, dvars, pvars>>

\* Forward as a plain send: it waits for a free slot of the channel
ForwardBlocking(t) ==
    /\ bpc[t] = "forward"
    /\ ~chanClosed
    /\ Len(responseChan) < ChanCap
    /\ responseChan' = Append(responseChan, response[t][1])
    /\ forwarded' = Append(forwarded, response[t][1])
    /\ response' = [response EXCEPT ![t] = << >>]
    /\ bpc' = [bpc EXCEPT ![t] = "read"]
    /\ UNCHANGED <<cmdName, opts, sendpc, xmlCmd, sendResult, ifaceEnums, sockets,
                   sent, uwrites, ureads, targetMAC, btodo, bwg, breads,
                   readBudget, arriving, chanClosed, closerpc, dropped, panicked>>
    /\ UNCHANGED <<route, lastRead, dvars, pvars>>

\* Forward on a channel without a buffer: the response is handed over only
\* while the caller waits in its range loop
ForwardUnbuffered(t) ==
    /\ bpc[t] = "forward"
    /\ IF chanClosed
       THEN /\ panicked' = TRUE
            /\ UNCHANGED <<responseChan, forwarded, dropped>>
       ELSE IF sendpc = "range" /\ responseChan = << >>
       THEN /\ responseChan' = Append(responseChan, response[t][1])
            /\ forwarded' = Append(forwarded, response[t][1])
            /\ UNCHANGED <<dropped, panicked>>
       ELSE /\ dropped' = dropped + 1
            /\ UNCHANGED <<responseChan, forwarded, panicked>>
    /\ response' = [response EXCEPT ![t] = << >>]
    /\ bpc' = [bpc EXCEPT ![t] = "read"]
    /\ UNCHANGED <<cmdName, opts, sendpc, xmlCmd, sendResult, ifaceEnums, sockets,
                   sent, uwrites, ureads, targetMAC, btodo, bwg, breads,
                   readBudget, arriving, chanClosed, closerpc>>
    /\ UNCHANGED <<route, lastRead, dvars, pvars>>

\* part_001:341-344: select { case responseChan <- response: default: }
Forward(t) ==
    /\ bpc[t] = "forward"
    /\ IF chanClosed
       THEN /\ panicked' = TRUE
            /\ UNCHANGED <<responseChan, forwarded, dropped>>
       ELSE IF Len(responseChan) < ChanCap
       THEN /\ responseChan' = Append(responseChan, response[t][1])
            /\ forwarded' = Append(forwarded, response[t][1])
            /\ UNCHANGED <<dropped, panicked>>
       ELSE /\ dropped' = dropped + 1
            /\ UNCHANGED <<responseChan, forwarded, panicked>>
    /\ response' = [response EXCEPT ![t] = << >>]
    /\ bpc' = [bpc EXCEPT ![t] = "read"]
    /\ UNCHANGED <<cmdName, opts, sendpc, xmlCmd, sendResult, ifaceEnums, sockets,
                   sent, uwrites, ureads, targetMAC, btodo, bwg, breads,
                   readBudget, arriving, chanClosed, closerpc>>
    /\ UNCHANGED <<route, lastRead, dvars, pvars>>

NextBroadcast ==
    \/ SendCommand
    \/ BroadcastEnter
    \/ BroadcastSpawn
    \/ StartCloser
    \/ CloseChan
    \/ Receive
    \/ RangeEnd
    \/ \E t \in LocalIPs : BroadcastListenUDP(t)
    \/ \E t \in LocalIPs : BroadcastSend(t)
    \/ \E t \in LocalIPs : \E d \in Responses : BroadcastRead(t, d)
    \/ \E t \in LocalIPs : BroadcastReadError(t)
    \/ \E t \in LocalIPs : Forward(t)

NextSend ==
    \/ DialUDP
    \/ Write
    \/ \E o \in ReadOutcomes : Read(o)
    \/ NextBroadcast

SpecSend == InitSend /\ [][NextSend]_vars

SpecFlood == InitFlood /\ [][NextBroadcast]_vars

\* part_001:282-360: the steps of the caller of a broadcast send once it has
\* listed the interfaces
BroadcastCallerStep ==
    \/ BroadcastSpawn
    \/ StartCloser
    \/ Receive
    \/ RangeEnd

\* the flood runs under a scheduler that runs the caller whenever it can
\* take a step and lets a task that has a response to offer offer it
FairSpecFlood ==
    /\ SpecFlood
    /\ WF_vars(BroadcastCallerStep)
    /\ \A t \in LocalIPs : WF_vars(Forward(t))

(***************************************************************************)
(* One Scanner used for one operation: a Discover call (and its repeats)   *)
(* or one broadcast send                                                   *)
(***************************************************************************)
InitScanner ==
    /\ NewScanner
    /\ DiscoverIdle
    /\ NoCall
    /\ SendIdle("inquiry", FloodOpts, MaxBcastReads, Responses)

\* scanner.go:86: Discover is called on a Scanner that is not sending
ScannerDiscover ==
    /\ sendpc = "idle"
    /\ DiscoverEnter

\* part_001:215: SendCommand is called on a Scanner that is not discovering
ScannerSend ==
    /\ mainpc = "idle"
    /\ SendCommand

NextScanner ==
    \/ ScannerDiscover
    \/ Spawn
    \/ WgWait
    \/ RLock
    \/ Snapshot
    \/ Return
    \/ \E t \in LocalIPs : ListenUDP(t)
    \/ \E t \in LocalIPs : SendProbes(t)
    \/ \E t \in LocalIPs : SetReadDeadline(t)
    \/ \E t \in LocalIPs : \E d \in Datagrams : ReadFromUDP(t, d)
    \/ \E t \in LocalIPs : ReadError(t)
    \/ \E t \in LocalIPs : Lock(t)
    \/ \E t \in LocalIPs : Check(t)
    \/ \E t \in LocalIPs : Insert(t)
    \/ \E t \in LocalIPs : Unlock(t)
    \/ ScannerSend
    \/ BroadcastEnter
    \/ BroadcastSpawn
    \/ StartCloser
    \/ CloseChan
    \/ Receive
    \/ RangeEnd
    \/ \E t \in LocalIPs : BroadcastListenUDP(t)
    \/ \E t \in LocalIPs : BroadcastSend(t)
    \/ \E t \in LocalIPs : \E d \in Responses : BroadcastRead(t, d)
    \/ \E t \in LocalIPs : BroadcastReadError(t)
    \/ \E t \in LocalIPs : Forward(t)

SpecScanner == InitScanner /\ [][NextScanner]_vars

(***************************************************************************)
(* One call of BuildCommandXML                                             *)
(***************************************************************************)
\* every catalog command and a name the catalog does not hold
BuildCmdNames == DOMAIN Commands \cup {"nosuchcommand"}

\* options with each field the builder looks at either unset or set
BuildOpts ==
    { [NoOpts EXCEPT !.TargetIP = ip, !.TargetMAC = mac, !.Password = pw,
                     !.Code = code, !.Email = email, !.NewIP = nip,
                     !.NewMask = nmask, !.NewPort = nport, !.DHCP = dhcp] :
        ip \in {"", "192.168.1.64"},
        mac \in {<< >>, <<"a", "a", "-", "0", "1">>},
        pw \in {"", "secret"},
        code \in {"", "1234"},
        email \in {"", "ops@example.org"},
        nip \in {"", "192.168.1.70"},
        nmask \in {"", "255.255.0.0"},
        nport \in {0, 8443},
        dhcp \in BOOLEAN }

InitBuild ==
    /\ NewScanner
    /\ DiscoverIdle
    /\ SendIdle("inquiry", NoOpts, 0, {})
    /\ frame = << >>
    /\ ret = << >>
    /\ \E c \in BuildCmdNames, o \in BuildOpts :
          call = [fn |-> "BuildCommandXML", cmdName |-> c, opts |-> o]

\* part_001:147-212: the call returns; the options were passed by value
BuildCall ==
    /\ call # << >>
    /\ call.fn = "BuildCommandXML"
    /\ ret = << >>
    /\ ret' = << BuildCommandXML(call.cmdName, call.opts, "uuid-1") >>
    /\ UNCHANGED <<call, frame, dvars, svars>>

NextBuild == BuildCall

SpecBuild == InitBuild /\ [][NextBuild]_vars

(***************************************************************************)
(* One call of Truncate                                                    *)
(***************************************************************************)
InitTruncate ==
    /\ NewScanner
    /\ DiscoverIdle
    /\ SendIdle("inquiry", NoOpts, 0, {})
    /\ frame = << >>
    /\ ret = << >>
    /\ \E str \in StringsUpTo(MaxStrLen), n \in 0..(MaxStrLen + 1) :
          call = [fn |-> "Truncate", s |-> str, maxLen |-> n]

\* scanner.go:258-264: the call returns or panics
TruncateCall ==
    /\ call # << >>
    /\ call.fn = "Truncate"
    /\ ret = << >>
    /\ ret' = << Truncate(call.s, call.maxLen) >>
    /\ UNCHANGED <<call, frame, dvars, svars>>

NextTruncate == TruncateCall

SpecTruncate == InitTruncate /\ [][NextTruncate]_vars

(***************************************************************************)
(* One call of ExpandCIDR                                                  *)
(***************************************************************************)
InitCIDR ==
    /\ NewScanner
    /\ DiscoverIdle
    /\ SendIdle("inquiry", NoOpts, 0, {})
    /\ frame = << >>
    /\ ret = << >>
    /\ \E c \in CIDRInputs : call = [fn |-> "ExpandCIDR", cidr |-> c]

\* arp.go:204-213: the argument is parsed; a prefix starts the loop at its
\* network address, a single address is returned as it is
ParseCIDR ==
    /\ call # << >>
    /\ call.fn = "ExpandCIDR"
    /\ frame = << >>
    /\ ret = << >>
    /\ CASE call.cidr.kind = "cidr" ->
              LET mask == CIDRMask(call.cidr.Ones)
                  net == Mask(call.cidr.IP, mask)
              IN  /\ frame' = [ip |-> net,
                               ipnet |-> [IP |-> net, Mask |-> mask],
                               ips |-> << >>]
                  /\ UNCHANGED ret
         [] call.cidr.kind = "ip" ->
              /\ ret' = << [ips |-> <<call.cidr.IP>>, err |-> FALSE] >>
              /\ UNCHANGED frame
         [] OTHER ->
              /\ ret' = << [ips |-> << >>, err |-> TRUE] >>
              /\ UNCHANGED frame
    /\ UNCHANGED <<call, dvars, svars>>

\* arp.go:213-224: one pass of the loop body and incrementIP; the runs follow
\* a loop for the first 2^MaxHostBits addresses it collects
LoopIter ==
    /\ frame # << >>
    /\ ret = << >>
    /\ IPNetContains(frame.ipnet, frame.ip)
    /\ Len(frame.ips) < Pow2(MaxHostBits)
    /\ LET ones == MaskOnes(frame.ipnet.Mask)
           bits == 8 * Len(frame.ipnet.Mask)
           lastOctet == frame.ip[Len(frame.ip)]
           skip == bits - ones <= 8 /\ (lastOctet = 0 \/ lastOctet = 255)
       IN  frame' = [frame EXCEPT
                        !.ips = IF skip THEN @ ELSE Append(@, frame.ip),
                        !.ip = incrementIP(frame.ip)]
    /\ UNCHANGED <<call, ret, dvars, svars>>

\* arp.go:213,226: the address has left the prefix, the list is returned
LoopExit ==
    /\ frame # << >>
    /\ ret = << >>
    /\ ~IPNetContains(frame.ipnet, frame.ip)
    /\ ret' = << [ips |-> frame.ips, err |-> FALSE] >>
    /\ UNCHANGED <<call, frame, dvars, svars>>

NextCIDR ==
    \/ ParseCIDR
    \/ LoopIter
    \/ LoopExit

SpecCIDR == InitCIDR /\ [][NextCIDR]_vars

(***************************************************************************)
(* One call of IsHikvisionMAC                                              *)
(***************************************************************************)
InitMAC ==
    /\ NewScanner
    /\ DiscoverIdle
    /\ SendIdle("inquiry", NoOpts, 0, {})
    /\ frame = << >>
    /\ ret = << >>
    /\ \E m \in MACInputs :
          call = [fn |-> "IsHikvisionMAC", mac |-> m.mac, oui |-> m.oui]

\* arp.go:136-153: the call returns
IsHikvisionMACCall ==
    /\ call # << >>
    /\ call.fn = "IsHikvisionMAC"
    /\ ret = << >>
    /\ ret' = << IsHikvisionMAC(call.mac) >>
    /\ UNCHANGED <<call, frame, dvars, svars>>

NextMAC == IsHikvisionMACCall

SpecMAC == InitMAC /\ [][NextMAC]_vars

(***************************************************************************)
(* One call of cli.Run                                                     *)
(***************************************************************************)
InitRun ==
    /\ NewScanner
    /\ DiscoverIdle
    /\ SendIdle("inquiry", NoOpts, 0, {})
    /\ frame = << >>
    /\ ret = << >>
    /\ \E a \in RunArgs : call = [fn |-> "Run", args |-> a]

\* cli.go:19-45: the call returns; a subcommand it ran succeeded or failed
RunCall ==
    /\ call # << >>
    /\ call.fn = "Run"
    /\ ret = << >>
    /\ \E subErr \in {<< >>, <<"subcommand failed", "">>} :
          ret' = << Run(call.args, subErr) >>
    /\ UNCHANGED <<call, frame, dvars, svars>>

NextRun == RunCall

SpecRun == InitRun /\ [][NextRun]_vars

(***************************************************************************)
(* DecryptXOR called on some data and again on its own output              *)
(***************************************************************************)
InitXOR ==
    /\ NewScanner
    /\ DiscoverIdle
    /\ SendIdle("inquiry", NoOpts, 0, {})
    /\ frame = << >>
    /\ ret = << >>
    /\ \E d \in BytesUpTo(MaxDataLen), k \in XORKeys :
          call = [fn |-> "DecryptXOR", data |-> d, keyHex |-> k]

\* crypto.go:41-53: the first call returns; frame keeps what it returned
DecryptXORCall ==
    /\ call # << >>
    /\ call.fn = "DecryptXOR"
    /\ frame = << >>
    /\ frame' = << DecryptXOR(call.data, call.keyHex) >>
    /\ UNCHANGED <<call, ret, dvars, svars>>

\* crypto.go:41-53: the output of the first call is decrypted with the same key
DecryptXORAgain ==
    /\ call # << >>
    /\ call.fn = "DecryptXOR"
    /\ frame # << >>
    /\ ~frame[1].panic
    /\ ~frame[1].err
    /\ ret = << >>
    /\ ret' = << DecryptXOR(frame[1].out, call.keyHex) >>
    /\ UNCHANGED <<call, frame, dvars, svars>>

NextXOR ==
    \/ DecryptXORCall
    \/ DecryptXORAgain

SpecXOR == InitXOR /\ [][NextXOR]_vars

(***************************************************************************)
(* One call of PingHost (arp.go:170-200)                                   *)
(***************************************************************************)
\* frame.pc: the caller; frame.proc: the ping process; frame.waiter: the
\* goroutine that calls cmd.Wait(); frame.werr: what cmd.Wait() returned;
\* frame.done: the buffer of the channel done; frame.elapsed: ticks since
\* time.After was called
InitPing ==
    /\ NewScanner
    /\ DiscoverIdle
    /\ SendIdle("inquiry", NoOpts, 0, {})
    /\ frame = << >>
    /\ ret = << >>
    /\ \E os \in {"darwin", "linux", "windows", "plan9"}, d \in 1..MaxTimeout :
          call = [fn |-> "PingHost", goos |-> os, timeout |-> d]

\* arp.go:172-191: the command is chosen and started, the waiting goroutine
\* is started and the caller enters the select
PingStart ==
    /\ call # << >>
    /\ call.fn = "PingHost"
    /\ frame = << >>
    /\ ret = << >>
    /\ IF call.goos \notin {"darwin", "linux", "windows"}
       THEN /\ ret' = <<FALSE>>
            /\ UNCHANGED frame
       ELSE \/ /\ ret' = <<FALSE>>
               /\ UNCHANGED frame
            \/ /\ frame' = [pc |-> "select", proc |-> "running",
                            waiter |-> "wait", werr |-> "none",
                            done |-> << >>, elapsed |-> 0]
               /\ UNCHANGED ret
    /\ UNCHANGED <<call, dvars, svars>>

\* the ping process ends by itself, with or without a reply
ProcExit(status) ==
    /\ frame # << >>
    /\ frame.proc = "running"
    /\ frame' = [frame EXCEPT !.proc = status]
    /\ UNCHANGED <<call, ret, dvars, svars>>

\* arp.go:190: cmd.Wait() returns once the process has ended
CmdWait ==
    /\ frame # << >>
    /\ frame.waiter = "wait"
    /\ frame.proc # "running"
    /\ frame' = [frame EXCEPT !.waiter = "send",
                              !.werr = IF frame.proc = "exited0" THEN "nil"
                                       ELSE "error"]
    /\ UNCHANGED <<call, ret, dvars, svars>>

\* DoneSend on a channel without a buffer: it needs the caller in the select
DoneSendUnbuffered ==
    /\ frame # << >>
    /\ frame.waiter = "send"
    /\ frame.pc = "select"
    /\ frame.done = << >>
    /\ frame' = [frame EXCEPT !.waiter = "done", !.done = <<frame.werr>>]
    /\ UNCHANGED <<call, ret, dvars, svars>>

\* arp.go:188-190: done <- err on the channel of capacity 1
DoneSend ==
    /\ frame # << >>
    /\ frame.waiter = "send"
    /\ Len(frame.done) < 1
    /\ frame' = [frame EXCEPT !.waiter = "done", !.done = Append(@, frame.werr)]
    /\ UNCHANGED <<call, ret, dvars, svars>>

\* time passes while the caller waits in the select and nothing is ready
Tick ==
    /\ frame # << >>
    /\ frame.pc = "select"
    /\ frame.done = << >>
    /\ frame.elapsed < call.timeout - 1
    /\ frame' = [frame EXCEPT !.elapsed = @ + 1]
    /\ UNCHANGED <<call, ret, dvars, svars>>

\* arp.go:194-195: the select receives the result of cmd.Wait()
SelectDone ==
    /\ frame # << >>
    /\ frame.pc = "select"
    /\ frame.done # << >>
    /\ ret' = << Head(frame.done) = "nil" >>
    /\ frame' = [frame EXCEPT !.pc = "returned", !.done = Tail(@)]
    /\ UNCHANGED <<call, dvars, svars>>

\* arp.go:196-198: the timer fires before anything is on done; the process
\* is killed (a process that has ended stays as it is)
SelectTimeout ==
    /\ frame # << >>
    /\ frame.pc = "select"
    /\ frame.done = << >>
    /\ frame.elapsed = call.timeout - 1
    /\ ret' = <<FALSE>>
    /\ frame' = [frame EXCEPT !.pc = "returned", !.elapsed = call.timeout,
                              !.proc = IF @ = "running" THEN "killed" ELSE @]
    /\ UNCHANGED <<call, dvars, svars>>

NextPing ==
    \/ PingStart
    \/ \E status \in {"exited0", "exited1"} : ProcExit(status)
    \/ CmdWait
    \/ DoneSend
    \/ Tick
    \/ SelectDone
    \/ SelectTimeout

SpecPing == InitPing /\ [][NextPing]_vars

\* the scheduler runs every goroutine that can take a step and the clock
\* goes on; the ping process itself may never end
FairSpecPing ==
    /\ SpecPing
    /\ WF_vars(PingStart)
    /\ WF_vars(CmdWait)
    /\ WF_vars(DoneSend)
    /\ WF_vars(Tick)
    /\ WF_vars(SelectDone)
    /\ WF_vars(SelectTimeout)


(***************************************************************************)
(* One call of discoverDevices (cli.go:128-182)                            *)
(***************************************************************************)
\* the addresses of the lists handed to discoverDevices
ScanIPs == {"10.0.0.1", "10.0.0.2"}

\* the lists, one with an address twice among them
ScanLists == UNION {[1..n -> ScanIPs] : n \in 0..MaxIPs}

\* the worker counts: the flag and the environment accept every integer
WorkerCounts == (0 - 1)..MaxWorkers

\* the goroutines the first loop can start
WorkerIds == 1..MaxWorkers

InitWorkers ==
    /\ NewScanner
    /\ DiscoverIdle
    /\ SendIdle("inquiry", NoOpts, 0, {})
    /\ frame = << >>
    /\ ret = << >>
    /\ \E l \in ScanLists, n \in WorkerCounts :
          call = [fn |-> "discoverDevices", ips |-> l, workers |-> n]

\* cli.go:135-136: the two channels are made, each with room for len(ips)
DiscoverDevicesEnter ==
    /\ call # << >>
    /\ call.fn = "discoverDevices"
    /\ frame = << >>
    /\ ret = << >>
    /\ frame' = [pc |-> "workers", i |-> 0, next |-> 1,
                 ipChan |-> << >>, ipChanClosed |-> FALSE, resultChan |-> << >>,
                 collected |-> 0, aliveHosts |-> << >>,
                 wpc |-> [w \in WorkerIds |-> "none"],
                 wresult |-> [w \in WorkerIds |-> << >>],
                 probed |-> << >>]
    /\ UNCHANGED <<call, ret, dvars, svars>>

\* cli.go:139-146: the next worker goroutine is started
StartWorker ==
    /\ frame # << >>
    /\ frame.pc = "workers"
    /\ frame.i < call.workers
    /\ frame' = [frame EXCEPT !.i = @ + 1, !.wpc[frame.i + 1] = "range"]
    /\ UNCHANGED <<call, ret, dvars, svars>>

\* cli.go:139: i < workers is false, the first loop ends
WorkersStarted ==
    /\ frame # << >>
    /\ frame.pc = "workers"
    /\ ~(frame.i < call.workers)
    /\ frame' = [frame EXCEPT !.pc = "send"]
    /\ UNCHANGED <<call, ret, dvars, svars>>

\* cli.go:149-151: ipChan <- ip; the send waits for a free slot
SendWork ==
    /\ frame # << >>
    /\ frame.pc = "send"
    /\ frame.next <= Len(call.ips)
    /\ Len(frame.ipChan) < Len(call.ips)
    /\ frame' = [frame EXCEPT !.ipChan = Append(@, call.ips[frame.next]),
                              !.next = @ + 1]
    /\ UNCHANGED <<call, ret, dvars, svars>>

\* cli.go:152: close(ipChan)
CloseIPChan ==
    /\ frame # << >>
    /\ frame.pc = "send"
    /\ frame.next > Len(call.ips)
    /\ frame' = [frame EXCEPT !.ipChanClosed = TRUE, !.pc = "collect"]
    /\ UNCHANGED <<call, ret, dvars, svars>>

\* cli.go:156-162: r := <-resultChan; an alive host is appended
CollectResult ==
    /\ frame # << >>
    /\ frame.pc = "collect"
    /\ frame.collected < Len(call.ips)
    /\ frame.resultChan # << >>
    /\ LET r == Head(frame.resultChan)
       IN  frame' = [frame EXCEPT
                        !.resultChan = Tail(@),
                        !.collected = @ + 1,
                        !.aliveHosts = IF r.alive THEN Append(@, r.ip) ELSE @]
    /\ UNCHANGED <<call, ret, dvars, svars>>

\* cli.go:156,165-181: the collect loop has ended; the ARP table is read and
\* the alive hosts with a Hikvision MAC in it are returned; hik are the
\* addresses the table gives a Hikvision MAC
GetARPTable(ok, hik) ==
    /\ frame # << >>
    /\ frame.pc = "collect"
    /\ ~(frame.collected < Len(call.ips))
    /\ LET IsHik(ip) == ip \in hik
       IN  ret' = << [devices |-> IF ok THEN SelectSeq(frame.aliveHosts, IsHik)
                                  ELSE << >>,
                      arpRead |-> TRUE] >>
    /\ frame' = [frame EXCEPT !.pc = "returned"]
    /\ UNCHANGED <<call, dvars, svars>>

\* cli.go:141: for ip := range ipChan receives the next address
WorkerReceive(w) ==
    /\ frame # << >>
    /\ frame.wpc[w] = "range"
    /\ frame.ipChan # << >>
    /\ frame' = [frame EXCEPT
                    !.ipChan = Tail(@),
                    !.wresult[w] = << [ip |-> Head(frame.ipChan), alive |-> FALSE] >>,
                    !.wpc[w] = "probe"]
    /\ UNCHANGED <<call, ret, dvars, svars>>

\* cli.go:142: alive := network.IsHostAlive(ip, timeout)
WorkerIsHostAlive(w, alive) ==
    /\ frame # << >>
    /\ frame.wpc[w] = "probe"
    /\ frame' = [frame EXCEPT
                    !.wresult[w] = << [@[1] EXCEPT !.alive = alive] >>,
                    !.probed = Append(@, [worker |-> w, ip |-> frame.wresult[w][1].ip]),
                    !.wpc[w] = "result"]
    /\ UNCHANGED <<call, ret, dvars, svars>>

\* cli.go:143: resultChan <- result{ip, alive}; the send waits for a free slot
WorkerResult(w) ==
    /\ frame # << >>
    /\ frame.wpc[w] = "result"
    /\ Len(frame.resultChan) < Len(call.ips)
    /\ frame' = [frame EXCEPT
                    !.resultChan = Append(@, frame.wresult[w][1]),
                    !.wresult[w] = << >>,
                    !.wpc[w] = "range"]
    /\ UNCHANGED <<call, ret, dvars, svars>>

\* cli.go:141,145: ipChan is closed and empty, the range loop and the worker end
WorkerEnd(w) ==
    /\ frame # << >>
    /\ frame.wpc[w] = "range"
    /\ frame.ipChan = << >>
    /\ frame.ipChanClosed
    /\ frame' = [frame EXCEPT !.wpc[w] = "done"]
    /\ UNCHANGED <<call, ret, dvars, svars>>

NextWorkers ==
    \/ DiscoverDevicesEnter
    \/ StartWorker
    \/ WorkersStarted
    \/ SendWork
    \/ CloseIPChan
    \/ CollectResult
    \/ \E ok \in BOOLEAN : \E hik \in SUBSET ScanIPs : GetARPTable(ok, hik)
    \/ \E w \in WorkerIds : WorkerReceive(w)
    \/ \E w \in WorkerIds : \E alive \in BOOLEAN : WorkerIsHostAlive(w, alive)
    \/ \E w \in WorkerIds : WorkerResult(w)
    \/ \E w \in WorkerIds : WorkerEnd(w)

SpecWorkers == InitWorkers /\ [][NextWorkers]_vars

\* the scheduler runs every goroutine that can take a step, and every host
\* probe ends
FairSpecWorkers == SpecWorkers /\ WF_vars(NextWorkers)

(***************************************************************************)
(* Properties of Discover                                                  *)
(***************************************************************************)
\* the tasks that hold, or are about to release, the write lock
InCritical == {t \in LocalIPs : pc[t] \in {"check", "insert", "unlock"}}

\* C1: once a device is stored under a MAC, no step replaces or changes that
\* entry, and a task whose parsed device carries a MAC already in the
\* registry leaves registry and stored devices as they are (first one wins).
C1_FirstWins ==
    [][ /\ \A m \in DOMAIN devices :
              /\ m \in DOMAIN devices'
              /\ devices'[m] = devices[m]
              /\ devices[m] \in DOMAIN heap'
              /\ heap'[devices[m]] = heap[devices[m]]
        /\ \A t \in LocalIPs :
              (pc[t] = "insert" /\ pc'[t] = "unlock"
                 /\ device[t][1].MAC \in DOMAIN devices)
              => (devices' = devices /\ heap' = heap) ]_vars

\* C1 witness: a task has just discarded a successfully parsed device whose
\* MAC is held by a different device, stored by the other interface's task.
C1_Witness ==
    \E t \in LocalIPs :
        /\ pc[t] = "unlock"
        /\ exists[t]
        /\ device[t][1].MAC \in DOMAIN devices
        /\ heap[devices[device[t][1].MAC]].AdapterIP # t
        /\ heap[devices[device[t][1].MAC]].body # device[t][1].body

\* C2: at most one task is between Lock and Unlock, that task is the holder
\* of the write lock and no reader is inside; the caller copies the registry
\* only while it holds the read lock and no writer is inside.
C2_LockedAccess ==
    /\ Cardinality(InCritical) <= 1
    /\ \A t \in InCritical : deviceMutex.writer = t /\ deviceMutex.readers = 0
    /\ deviceMutex.writer # None => deviceMutex.writer \in InCritical
    /\ mainpc \in {"snapshot", "copied"}
          => (deviceMutex.readers = 1 /\ deviceMutex.writer = None)

\* C2 witness: one task is between its check and its insert while the other
\* task waits for the lock with a parsed device of its own.
C2_Witness ==
    \E t1, t2 \in LocalIPs :
        /\ t1 # t2
        /\ pc[t1] = "insert"
        /\ pc[t2] = "lock"

\* C3: when Discover returns a list, the MACs of the listed devices are
\* exactly the normalized MACs of the responses parsed by the tasks of this
\* call, and no two listed devices share a MAC.
C3_ResultExact ==
    (mainpc = "returned" /\ resultErr = None) =>
        /\ {heap[p].MAC : p \in result} = parsed
        /\ \A p, q \in result : heap[p].MAC = heap[q].MAC => p = q

\* C4: a Discover call starts from an empty registry, and the list it
\* returns holds only devices received during that call.
C4_RegistryPerCall ==
    /\ (mainpc = "loop" /\ todo = UsableAddrs(Interfaces)) => devices = << >>
    /\ (mainpc = "returned" /\ resultErr = None) =>
           \A p \in result : heap[p].ReceivedTime = callNo

\* C5: the caller is at or past the snapshot only when every task it started
\* has finished; from the snapshot until the next call the registry does not
\* change; and a device that is in a returned list is never modified.
C5_SnapshotAfterTasks ==
    /\ [](mainpc \in {"rlock", "snapshot", "copied"} =>
             (wg = 0 /\ \A t \in LocalIPs : pc[t] = "done"))
    /\ [][ /\ (mainpc \in {"copied", "returned"} /\ mainpc' \in {"copied", "returned"})
              => (devices' = devices /\ heap' = heap)
           /\ \A p \in result : p \in DOMAIN heap' /\ heap'[p] = heap[p] ]_vars

\* C5 witness: the snapshot has been taken with two devices in it, stored by
\* two different tasks.
C5_Witness ==
    /\ mainpc = "copied"
    /\ \E p, q \in result : heap[p].AdapterIP # heap[q].AdapterIP

(***************************************************************************)
(* Properties of SendCommand                                               *)
(***************************************************************************)
\* the error of a broadcast send that no device answered
TimeoutErr == <<"no response from device with MAC (timeout)", opts.TargetMAC>>

\* the state of one broadcast send, in the words of the design
Phase ==
    IF route # "broadcast" THEN "NotBroadcast"
    ELSE CASE sendpc = "bcast" -> "Built"
           [] sendpc = "bloop" -> "Dispatched"
           [] sendpc = "range" -> "WaitingForMatch"
           [] sendpc = "returned" /\ sendResult.resp # << >> -> "Matched"
           [] sendpc = "returned" /\ sendResult.err = TimeoutErr -> "TimeoutError"
           [] OTHER -> "NotDispatched"

\* the steps of the state machine; a send whose interface listing fails
\* ends before it is dispatched
PhaseSteps ==
    { <<"NotBroadcast", "Built">>, <<"Built", "Dispatched">>,
      <<"Built", "NotDispatched">>, <<"Dispatched", "WaitingForMatch">>,
      <<"WaitingForMatch", "Matched">>, <<"WaitingForMatch", "TimeoutError">> }

\* C6: a broadcast send moves Built -> Dispatched -> WaitingForMatch ->
\* Matched or TimeoutError; the response it returns is the first one a task
\* put on the result channel; it returns the timeout error only when every
\* task has ended and none has put, or is about to put, a response there.
C6_FirstResponseOrTimeout ==
    /\ [](Phase = "Matched" =>
            (forwarded # << >> /\ sendResult.resp = <<forwarded[1]>>
               /\ sendResult.err = << >>))
    /\ [](Phase = "TimeoutError" =>
            (/\ \A t \in LocalIPs : bpc[t] = "done"
             /\ bwg = 0
             /\ forwarded = << >>
             /\ sendResult.resp = << >>))
    /\ [][Phase' # Phase => <<Phase, Phase'>> \in PhaseSteps]_vars

\* C6 witness: the caller has returned the first forwarded response while a
\* different response was forwarded after it.
C6_Witness ==
    /\ Phase = "Matched"
    /\ Len(forwarded) >= 2
    /\ forwarded[2] # forwarded[1]
    /\ sendResult.resp = <<forwarded[1]>>

\* C7: a task that is about to forward a response can always take that step,
\* whatever the channel holds; with ChanCap responses buffered the step
\* drops the response, leaves the channel as it is and returns the task to
\* its read loop, where it can read again or meet its deadline.
C7_ForwardNeverBlocks ==
    /\ [](\A t \in LocalIPs : bpc[t] = "forward" => ENABLED Forward(t))
    /\ [](\A t \in LocalIPs : bpc[t] = "read" => ENABLED BroadcastReadError(t))
    /\ [](Len(responseChan) <= ChanCap)
    /\ [][\A t \in LocalIPs :
            (bpc[t] = "forward" /\ bpc'[t] # "forward"
               /\ Len(responseChan) = ChanCap)
            => (responseChan' = responseChan /\ forwarded' = forwarded
                  /\ dropped' = dropped + 1 /\ bpc'[t] = "read")]_vars

\* C7 witness: with the channel full and the caller not yet served, two
\* responses have been dropped and a task is back in its read loop.
C7_Witness ==
    /\ dropped >= 2
    /\ Len(responseChan) = ChanCap
    /\ \E t \in LocalIPs : bpc[t] = "read"

\* the path C8 names for the caller's target IP and target MAC
ClaimedRoute ==
    IF opts.TargetIP = "" \/ opts.TargetIP = "0.0.0.0"
    THEN IF opts.TargetMAC # << >> THEN "broadcast" ELSE "error"
    ELSE "unicast"

\* C8 as stated: whatever the command, the call takes the path named for its
\* target IP and MAC, and the error case opens no socket.
C8_RouteByTargetOnly ==
    sendpc # "idle" =>
        /\ route = ClaimedRoute
        /\ route = "error" => (sockets = 0 /\ sendpc = "returned")

\* C8 amended: when the command builds, the call takes the path named for
\* its target IP and MAC; whenever the call ends in the routing error or in
\* a build error, no socket has been opened.
C8_RouteWhenBuilt ==
    /\ (sendpc # "idle" /\ xmlCmd # << >>) => route = ClaimedRoute
    /\ (sendpc # "idle" /\ xmlCmd = << >>) => route = "error"
    /\ route = "error" =>
          (sockets = 0 /\ sendpc = "returned" /\ sendResult.err # << >>)

\* C8 witness: a command that needs no MAC was built and the call failed
\* because neither a target IP nor a target MAC was given.
C8_Witness ==
    /\ xmlCmd # << >>
    /\ route = "error"
    /\ sendResult.err = <<"MAC address required when target IP is 0.0.0.0">>
    /\ sockets = 0

\* C9: when BuildCommandXML fails for the caller's command and options, the
\* call returns that error and has listed no interface, opened no socket,
\* started no task and written or read no datagram.
C9_BuildFailureNoIO ==
    BuildCommandXML(cmdName, opts, "uuid-1").err # << >> =>
        /\ sendpc \in {"idle", "returned"}
        /\ sendpc = "returned" =>
              (/\ sendResult.err = BuildCommandXML(cmdName, opts, "uuid-1").err
               /\ sendResult.resp = << >>)
        /\ ifaceEnums = 0
        /\ sockets = 0
        /\ sent = {}
        /\ uwrites = 0
        /\ ureads = 0
        /\ \A t \in LocalIPs : bpc[t] = "none"

\* C9 witness: a reboot with a target IP and MAC but no password has
\* returned its build error.
C9_Witness ==
    /\ sendpc = "returned"
    /\ cmdName = "reboot"
    /\ opts.TargetIP = "192.168.1.64"
    /\ opts.TargetMAC # << >>
    /\ sendResult.err = <<"password required", "reboot">>

\* C10: on the unicast path there is at most one socket, one write and one
\* read; a call that got as far as reading has written the built command
\* once and read once; a read that met the deadline returns the timeout
\* error, any other read failure the read error, and a datagram is returned
\* exactly as it arrived.
C10_UnicastExchange ==
    route = "unicast" =>
        /\ sockets <= 1 /\ uwrites <= 1 /\ ureads <= 1
        /\ ifaceEnums = 0
        /\ sendpc = "read" =>
              (uwrites = 1 /\ ureads = 0
                 /\ sent = {[from |-> "dial", to |-> <<opts.TargetIP, Port>>,
                             data |-> xmlCmd[1]]})
        /\ (sendpc = "returned" /\ lastRead.kind # "none") =>
              (uwrites = 1 /\ ureads = 1 /\ Cardinality(sent) = 1)
        /\ (sendpc = "returned" /\ lastRead.kind = "deadline") =>
              (sendResult = [resp |-> << >>, err |-> <<"no response (timeout)">>])
        /\ (sendpc = "returned" /\ lastRead.kind = "error") =>
              (sendResult = [resp |-> << >>, err |-> <<"failed to read response">>])
        /\ (sendpc = "returned" /\ lastRead.kind = "data") =>
              (sendResult = [resp |-> <<lastRead.data>>, err |-> << >>])
        /\ (sendpc = "returned" /\ lastRead.kind = "none") =>
              (ureads = 0 /\ sendResult.resp = << >>
                 /\ sendResult.err \in {<<"failed to connect">>,
                                        <<"failed to send command">>})

\* C10 witness: bytes that are no protocol XML arrived and were returned as
\* they are.
C10_Witness ==
    /\ route = "unicast"
    /\ sendpc = "returned"
    /\ lastRead = [kind |-> "data", data |-> RespGarbage]
    /\ sendResult.resp = <<RespGarbage>>

(***************************************************************************)
(* Failures of one interface                                               *)
(***************************************************************************)
\* the discovery task of t ended because its socket could not be bound
BindFailed(t) == pc[t] = "done" /\ conn[t] = "none"

\* the broadcast task of t ended because its socket could not be bound
BroadcastBindFailed(t) == bpc[t] = "done" /\ \A m \in sent : m.from # t

\* C11: a bind failure in the task of one interface, in discovery or in a
\* broadcast send, ends that task and nothing else: the step changes no
\* sibling, no socket, no result and no error, and it signals the WaitGroup;
\* the siblings can still send and read; a Discover call that returns after
\* such a failure returns no error and a list holding every device its other
\* tasks parsed; a broadcast send that returns after such a failure returns
\* the first forwarded response, or the timeout error when none was
\* forwarded.
C11_BindFailureIsLocal ==
    /\ [][\A t \in LocalIPs :
            (pc[t] = "start" /\ pc'[t] = "done") =>
               /\ \A u \in LocalIPs \ {t} : pc'[u] = pc[u]
               /\ wg' = wg - 1
               /\ UNCHANGED <<conn, mainpc, result, resultErr, devices, heap,
                              device, reads>>]_vars
    /\ [][\A t \in LocalIPs :
            (bpc[t] = "start" /\ bpc'[t] = "done") =>
               /\ \A u \in LocalIPs \ {t} : bpc'[u] = bpc[u]
               /\ bwg' = bwg - 1
               /\ UNCHANGED <<sendpc, sendResult, sent, sockets, responseChan,
                              forwarded, response, chanClosed>>]_vars
    /\ []((\E t \in LocalIPs : BindFailed(t)) =>
            /\ \A u \in LocalIPs :
                 /\ pc[u] = "start" => ENABLED ListenUDP(u)
                 /\ pc[u] = "send" => ENABLED SendProbes(u)
                 /\ pc[u] = "read" => ENABLED ReadError(u)
                 /\ (pc[u] = "read" /\ timeLeft[u] > 0) =>
                        \A d \in Datagrams : ENABLED ReadFromUDP(u, d)
            /\ mainpc = "returned" =>
                 /\ resultErr = None
                 /\ \A m \in parsed : m \in DOMAIN devices /\ devices[m] \in result)
    /\ []((\E t \in LocalIPs : BroadcastBindFailed(t)) =>
            /\ \A u \in LocalIPs :
                 /\ bpc[u] = "start" => ENABLED BroadcastListenUDP(u)
                 /\ bpc[u] = "send" => ENABLED BroadcastSend(u)
                 /\ bpc[u] = "read" => ENABLED BroadcastReadError(u)
            /\ sendpc = "returned" =>
                 /\ sendResult.err \in {<< >>, TimeoutErr}
                 /\ sendResult.err = << >> =>
                       (forwarded # << >> /\ sendResult.resp = <<forwarded[1]>>)
                 /\ sendResult.err = TimeoutErr => forwarded = << >>)

\* C11 witness: Discover has returned a device that the task of one address
\* stored, in a call where the socket of another address could not be bound.
C11_Witness ==
    /\ mainpc = "returned"
    /\ resultErr = None
    /\ \E t, u \in LocalIPs :
         /\ BindFailed(t)
         /\ conn[u] = "closed"
         /\ \E p \in result : heap[p].AdapterIP = u /\ heap[p].ReceivedTime = callNo

\* the same for a broadcast send: it has returned the response a task
\* forwarded while the socket of another address could not be bound
C11_WitnessBroadcast ==
    /\ sendpc = "returned"
    /\ sendResult.resp # << >>
    /\ \E t, u \in LocalIPs :
         /\ BroadcastBindFailed(t)
         /\ \E m \in sent : m.from = u

\* the datagrams that lack the ProbeMatch marker or are not well-formed XML
BadDatagrams == {d \in Datagrams : ~d.marker \/ ~d.wellFormed}

\* C12: a discovery read of a datagram that lacks the ProbeMatch marker or is
\* not well-formed XML yields no device: the step leaves the registry, the
\* task's device, its socket and the call's result and error as they are
\* and the task stays in its read loop, where every datagram, valid ones
\* included, can still be read until the deadline; a Discover call whose
\* tasks ran returns no error, and every device a task parsed is in the
\* registry when the call returns.
C12_MalformedDropped ==
    /\ [][\A t \in LocalIPs : \A d \in BadDatagrams :
            ReadFromUDP(t, d) =>
               /\ pc'[t] = "read"
               /\ UNCHANGED <<devices, heap, device, conn, result, resultErr,
                              mainpc, wg, parsed>>]_vars
    /\ [](\A t \in LocalIPs :
            (pc[t] = "read" /\ timeLeft[t] > 0) =>
               \A d \in Datagrams : ENABLED ReadFromUDP(t, d))
    /\ []((mainpc = "returned" /\ \E t \in LocalIPs : pc[t] # "none") =>
            /\ resultErr = None
            /\ parsed \subseteq DOMAIN devices)

\* C12 witness: in the first call, on an empty registry, the second datagram
\* of a task has just been stored while no other socket received anything:
\* the task's first datagram yielded no device.
C12_Witness ==
    /\ callNo = 1
    /\ \E t \in LocalIPs :
         /\ pc[t] = "unlock"
         /\ reads[t] = 2
         /\ ~exists[t]
         /\ Len(heap) = 1
         /\ heap[1].AdapterIP = t
         /\ \A u \in LocalIPs \ {t} : reads[u] = 0

(***************************************************************************)
(* Properties of BuildCommandXML                                           *)
(***************************************************************************)
\* a call of BuildCommandXML has returned
Built == ret # << >> /\ call.fn = "BuildCommandXML"

\* the fields each catalog command requires, as the catalog's description
\* lists them
RequiredFields(c) ==
    CASE c \in {"inquiry", "inquiry_v32"} -> {}
      [] c \in {"exchangecode", "getencryptstring", "getencryptstring_v31",
                "getbindlist", "getqrcodes"} -> {"MAC"}
      [] c \in {"activate", "reboot", "restore", "ezvizunbind", "update"} ->
            {"MAC", "Password"}
      [] c \in {"resetpassword", "securitycode"} -> {"MAC", "Code", "Password"}
      [] c = "setmailbox" -> {"MAC", "Password", "Email"}

\* field f of the options o is empty
Absent(o, f) ==
    CASE f = "MAC" -> o.TargetMAC = << >>
      [] f = "Password" -> o.Password = ""
      [] f = "Code" -> o.Code = ""
      [] f = "Email" -> o.Email = ""

MissingFields(c, o) == {f \in RequiredFields(c) : Absent(o, f)}

\* the document doc carries value v in an element named by one of tags
Carries(doc, tags, v) ==
    \E i \in 1..Len(doc.Elems) : doc.Elems[i][1] \in tags /\ doc.Elems[i][2] = v

\* the document carries the value the options give for field f
CarriesField(doc, o, f) ==
    CASE f = "MAC" -> Carries(doc, {"MAC"}, o.TargetMAC)
      [] f = "Password" -> Carries(doc, {"Password"}, o.Password)
      [] f = "Code" -> Carries(doc, {"Code", "SecurityCode"}, o.Code)
      [] f = "Email" -> Carries(doc, {"MailBox"}, o.Email)

\* C13: for every catalog command BuildCommandXML succeeds exactly when every
\* field the command requires is non-empty, and a document it returns
\* carries the value of each required field as it was given.
C13_BuildsIffRequired ==
    (Built /\ call.cmdName \in DOMAIN Commands) =>
        /\ (ret[1].err = << >>) <=> (MissingFields(call.cmdName, call.opts) = {})
        /\ (ret[1].err = << >>) <=> (ret[1].xml # << >>)
        /\ ret[1].err = << >> =>
              \A f \in RequiredFields(call.cmdName) :
                   CarriesField(ret[1].xml[1], call.opts, f)

\* C13 witness: setmailbox has been built from a MAC, a password and an
\* e-mail address, with the security code left empty.
C13_Witness ==
    /\ Built
    /\ call.cmdName = "setmailbox"
    /\ call.opts.Code = ""
    /\ ret[1].err = << >>
    /\ CarriesField(ret[1].xml[1], call.opts, "Email")

\* C14: a command name the catalog does not hold fails with the 'unknown
\* command' error naming it, whatever the options are, and never with a
\* missing-field error.
C14_UnknownCommand ==
    (Built /\ call.cmdName \notin DOMAIN Commands) =>
        /\ ret[1].xml = << >>
        /\ ret[1].err = <<"unknown command", call.cmdName>>

\* C14 witness: an unknown command was called with no MAC and no password,
\* which field validation would have rejected.
C14_Witness ==
    /\ Built
    /\ call.cmdName \notin DOMAIN Commands
    /\ call.opts.TargetMAC = << >>
    /\ call.opts.Password = ""
    /\ ret[1].err[1] = "unknown command"

\* the fields the text of a build error names
NamedFields(err) ==
    CASE err[1] = "MAC address required" -> {"MAC"}
      [] err[1] = "password required" -> {"Password"}
      [] err[1] = "new password required" -> {"Password"}
      [] err[1] = "security code required" -> {"Code"}
      [] err[1] = "MAC, password, and email required" -> {"MAC", "Password", "Email"}
      [] err[1] = "MAC and password required" -> {"MAC", "Password"}
      [] OTHER -> {}

\* a catalog command failed to build
BuildFailed == Built /\ call.cmdName \in DOMAIN Commands /\ ret[1].err # << >>

\* the first absent field in the order the builder validates them
FirstMissing(c, o) ==
    IF Absent(o, "MAC") THEN "MAC"
    ELSE IF "Code" \in MissingFields(c, o) THEN "Code"
    ELSE "Password"

\* C15 as stated: whenever a catalog command fails to build, the error names
\* the command and names the missing field: it names at least one field and
\* every field it names is absent from the options.
C15_ErrorNamesMissing ==
    BuildFailed =>
        /\ ret[1].err[2] = call.cmdName
        /\ NamedFields(ret[1].err) # {}
        /\ NamedFields(ret[1].err) \subseteq MissingFields(call.cmdName, call.opts)

\* C15 amended: whenever a catalog command fails to build, the error names
\* the command and at least one absent field; for setmailbox and update it
\* names every field the command requires, absent or not; for every other
\* command it names exactly the first absent field in the order MAC, code,
\* password.
C15_ErrorNamesCommand ==
    BuildFailed =>
        /\ ret[1].err[2] = call.cmdName
        /\ NamedFields(ret[1].err) \cap MissingFields(call.cmdName, call.opts) # {}
        /\ IF call.cmdName \in {"setmailbox", "update"}
           THEN NamedFields(ret[1].err) = RequiredFields(call.cmdName)
           ELSE NamedFields(ret[1].err) = {FirstMissing(call.cmdName, call.opts)}

\* C15 witness: setmailbox failed with only the e-mail address absent, and
\* the error names the MAC and the password as well.
C15_Witness ==
    /\ BuildFailed
    /\ call.cmdName = "setmailbox"
    /\ MissingFields(call.cmdName, call.opts) = {"Email"}
    /\ NamedFields(ret[1].err) = {"MAC", "Password", "Email"}

\* the value of the element of doc named tag
Elem(doc, tag) ==
    doc.Elems[CHOOSE i \in 1..Len(doc.Elems) : doc.Elems[i][1] = tag][2]

\* C16: update with MAC and password set builds a document whose new IP is
\* the supplied one or else the target IP, whose mask is the supplied one or
\* else 255.255.255.0, whose port is the supplied one or else 8000 and whose
\* DHCP flag is "true" when set and "false" otherwise.
C16_UpdateDefaults ==
    (Built /\ call.cmdName = "update" /\ call.opts.TargetMAC # << >>
           /\ call.opts.Password # "") =>
        /\ ret[1].err = << >>
        /\ LET doc == ret[1].xml[1]
               o == call.opts
           IN  /\ Elem(doc, "IPv4Address") =
                     IF o.NewIP = "" THEN o.TargetIP ELSE o.NewIP
               /\ Elem(doc, "IPv4SubnetMask") =
                     IF o.NewMask = "" THEN "255.255.255.0" ELSE o.NewMask
               /\ Elem(doc, "CommandPort") =
                     IF o.NewPort = 0 THEN 8000 ELSE o.NewPort
               /\ Elem(doc, "DHCP") = IF o.DHCP THEN "true" ELSE "false"

\* C16 witness: an update was built with the new IP and the mask unset and
\* the port supplied: the target IP and the default mask are in the
\* document next to the supplied port.
C16_Witness ==
    /\ Built
    /\ call.cmdName = "update"
    /\ ret[1].err = << >>
    /\ call.opts.NewIP = ""
    /\ call.opts.NewMask = ""
    /\ call.opts.NewPort = 8443
    /\ call.opts.TargetIP = "192.168.1.64"
    /\ Elem(ret[1].xml[1], "IPv4Address") = "192.168.1.64"
    /\ Elem(ret[1].xml[1], "IPv4SubnetMask") = "255.255.255.0"
    /\ Elem(ret[1].xml[1], "CommandPort") = 8443

\* C17: no step of SendCommand, the call of BuildCommandXML inside it
\* included, changes the command name or the SendOptions of the caller; the
\* defaults of update reach the built document only.  (The catalog is the
\* definition Commands, which no step can change.)
C17_CallerOptionsKept ==
    /\ [][opts' = opts /\ cmdName' = cmdName]_vars
    /\ []((cmdName = "update" /\ xmlCmd # << >>) =>
            /\ opts \in SendOpts
            /\ Elem(xmlCmd[1], "IPv4Address") = opts.TargetIP
            /\ Elem(xmlCmd[1], "IPv4SubnetMask") = "255.255.255.0"
            /\ Elem(xmlCmd[1], "CommandPort") = 8000)

\* C17 witness: SendCommand has built an update whose document holds the
\* default mask and port while the caller's options still have them unset.
C17_Witness ==
    /\ sendpc # "idle"
    /\ cmdName = "update"
    /\ xmlCmd # << >>
    /\ Elem(xmlCmd[1], "IPv4SubnetMask") = "255.255.255.0"
    /\ Elem(xmlCmd[1], "CommandPort") = 8000
    /\ opts.NewMask = ""
    /\ opts.NewPort = 0

(***************************************************************************)
(* Properties of the stateless functions                                   *)
(***************************************************************************)
\* n periods
Periods(n) == [i \in 1..n |-> "."]

\* C18: Truncate(s, maxLen) returns s when s fits in maxLen characters;
\* otherwise it returns exactly maxLen periods when maxLen <= 3 (0, 1 and 2
\* included) and the first maxLen-3 characters of s followed by three
\* periods when maxLen > 3.
C18_TruncateBoundary ==
    (ret # << >> /\ call.fn = "Truncate") =>
        /\ ~ret[1].panic
        /\ ret[1].value =
              IF Len(call.s) <= call.maxLen THEN call.s
              ELSE IF call.maxLen <= 3 THEN Periods(call.maxLen)
              ELSE SubSeq(call.s, 1, call.maxLen - 3) \o Periods(3)

\* a call of ExpandCIDR on a prefix has returned
ExpandedPrefix ==
    ret # << >> /\ call.fn = "ExpandCIDR" /\ call.cidr.kind = "cidr"

\* the k-th address of the prefix the call was given, counted from its
\* network address; the prefixes have at most 16 host bits
AddrAt(k) ==
    LET net == Mask(call.cidr.IP, CIDRMask(call.cidr.Ones))
    IN  <<net[1], net[2], net[3] + (k \div 256), net[4] + (k % 256)>>

\* address a comes before address b
AddrLess(a, b) ==
    \E i \in 1..4 : a[i] < b[i] /\ \A j \in 1..(i - 1) : a[j] = b[j]

\* C19: ExpandCIDR returns the addresses of the prefix in ascending order;
\* with at most 8 host bits it omits exactly the network and the broadcast
\* address (254 addresses for a /24, 2 for a /30); with more than 8 host
\* bits it returns every address of the prefix.
C19_ExpandCIDR ==
    ExpandedPrefix =>
        LET ips == ret[1].ips
            h == 32 - call.cidr.Ones
            all == {AddrAt(k) : k \in 0..(Pow2(h) - 1)}
        IN  /\ ~ret[1].err
            /\ \A i \in 1..(Len(ips) - 1) : AddrLess(ips[i], ips[i + 1])
            /\ {ips[i] : i \in 1..Len(ips)} =
                  IF h <= 8 THEN all \ {AddrAt(0), AddrAt(Pow2(h) - 1)} ELSE all

\* the prefixes some document gives to Hikvision
DocumentedOUIs == {HikvisionOUIs[i] : i \in 1..Len(HikvisionOUIs)} \cup ReadmeOUIs

\* C20: IsHikvisionMAC is true for every MAC address, written with colons
\* or dashes in either case, whose first three octets are a documented
\* Hikvision prefix, the five prefixes of the README included, and false for
\* every other input.
C20_DocumentedPrefixes ==
    (ret # << >> /\ call.fn = "IsHikvisionMAC") =>
        (ret[1] <=> call.oui \in DocumentedOUIs)

(***************************************************************************)
(* Properties of PingHost                                                  *)
(***************************************************************************)
\* C21: PingHost returns the success of the ping process when the result of
\* the process reaches the select before the timer fires (the select took
\* the value from done), and otherwise returns false with the process
\* killed or ended; the goroutine that waits for the process can always put
\* its result on done, its cmd.Wait() can return once the caller has
\* returned, and every call that started the process ends with the caller
\* returned and the goroutine finished.
C21_PingRace ==
    /\ []((frame # << >> /\ frame.pc = "returned") =>
            /\ frame.elapsed < call.timeout =>
                  (ret[1] <=> frame.proc = "exited0")
            /\ frame.elapsed = call.timeout =>
                  (~ret[1] /\ frame.proc # "running")
            /\ frame.proc # "running")
    /\ []((frame # << >> /\ frame.waiter = "send") => ENABLED DoneSend)
    /\ []((frame # << >> /\ frame.waiter = "wait" /\ frame.pc = "returned") =>
            ENABLED CmdWait)
    /\ [](frame # << >> =>
            <>(/\ frame # << >>
               /\ frame.pc = "returned"
               /\ frame.waiter = "done"
               /\ ret # << >>))

\* C21 witness: the timer fired first, the caller has returned false, and
\* the goroutine has put the result of the killed process on done and ended.
C21_Witness ==
    /\ frame # << >>
    /\ call.fn = "PingHost"
    /\ frame.pc = "returned"
    /\ frame.proc = "killed"
    /\ ret = <<FALSE>>
    /\ frame.waiter = "done"
    /\ frame.done = <<"error">>

\* the other outcome: the process replied first and the caller returned true
C21_WitnessReply ==
    /\ frame # << >>
    /\ call.fn = "PingHost"
    /\ frame.pc = "returned"
    /\ frame.proc = "exited0"
    /\ ret = <<TRUE>>

(***************************************************************************)
(* Properties of cli.Run                                                   *)
(***************************************************************************)
\* C22: Run with no arguments, or with help, --help or -h as its first
\* argument, prints the usage, runs no subcommand and returns no error; Run
\* with a first argument that is neither a subcommand nor a help word prints
\* the usage, runs no subcommand and returns the 'unknown command' error
\* naming that argument.
C22_RunUsage ==
    (ret # << >> /\ call.fn = "Run") =>
        /\ (call.args = << >> \/ (call.args # << >> /\ call.args[1] \in HelpWords)) =>
              (ret[1].usage /\ ret[1].err = << >> /\ ret[1].ran = None)
        /\ (call.args # << >> /\ call.args[1] \notin Subcommands \cup HelpWords) =>
              /\ ret[1].usage
              /\ ret[1].ran = None
              /\ ret[1].err = <<"unknown command", call.args[1]>>

\* C22 witness: Run was called with an unknown first word followed by
\* --help and has returned the error.
C22_Witness ==
    /\ ret # << >>
    /\ call.fn = "Run"
    /\ call.args = <<"bogus", "--help">>
    /\ ret[1].usage
    /\ ret[1].err = <<"unknown command", "bogus">>

(***************************************************************************)
(* Properties of DecryptXOR                                                *)
(***************************************************************************)
\* the text is valid hex: an even number of hexadecimal digits, none included
ValidHex(text) ==
    Len(text) % 2 = 0 /\ \A i \in 1..Len(text) : text[i] \in DOMAIN HexDigits

\* C23: with a key that is valid hex DecryptXOR returns, without an error,
\* as many bytes as it was given, and decrypting its output with the same
\* key returns the data it was given; with a key that is not valid hex it
\* returns an error and no output.
C23_XORRoundTrip ==
    /\ (frame # << >> /\ call.fn = "DecryptXOR") =>
          IF ValidHex(call.keyHex)
          THEN /\ ~frame[1].panic
               /\ ~frame[1].err
               /\ Len(frame[1].out) = Len(call.data)
          ELSE frame[1].err /\ frame[1].out = << >>
    /\ (ret # << >> /\ call.fn = "DecryptXOR") =>
          /\ ~ret[1].panic
          /\ ~ret[1].err
          /\ ret[1].out = call.data

(***************************************************************************)
(* The probes and the deadline of a discovery task                         *)
(***************************************************************************)
\* the task of t has written its four probes as the design describes them
FourProbes(t) ==
    /\ Len(probes[t]) = 4
    /\ \A i \in 1..4 : probes[t][i].data.Uuid = probes[t][1].data.Uuid
    /\ probes[t][1].data.Types = "inquiry"
    /\ probes[t][2].data.Types = "inquiry_v32"
    /\ probes[t][3].data.Types = "inquiry"
    /\ probes[t][4].data.Types = "inquiry_v32"
    /\ probes[t][1].to = << <<239, 255, 255, 250>>, Port >>
    /\ probes[t][2].to = << <<239, 255, 255, 250>>, Port >>
    /\ probes[t][3].to = << <<255, 255, 255, 255>>, Port >>
    /\ probes[t][4].to = << <<255, 255, 255, 255>>, Port >>

\* C24: a discovery task that has bound its socket writes nothing and reads
\* nothing before its send step; once past it, whichever writes failed, it
\* has made four writes: inquiry and inquiry_v32 with one correlation id to
\* the multicast group, then both to the limited broadcast address; the
\* deadline is set and datagrams are read only after the four writes, and
\* after the writes the task can always go on to set the deadline and read.
C24_FourProbes ==
    \A t \in LocalIPs :
        /\ pc[t] \in {"none", "start", "send"} =>
              (probes[t] = << >> /\ deadlines[t] = 0 /\ reads[t] = 0)
        /\ conn[t] = "none" => probes[t] = << >>
        /\ (conn[t] # "none" /\ pc[t] # "send") => FourProbes(t)
        /\ deadlines[t] > 0 => FourProbes(t)
        /\ reads[t] > 0 => (FourProbes(t) /\ deadlines[t] > 0)
        /\ pc[t] = "send" => ENABLED SendProbes(t)
        /\ pc[t] = "deadline" => ENABLED SetReadDeadline(t)
        /\ pc[t] = "read" => ENABLED ReadError(t)

\* C24 witness: a task has read a datagram after its four probes went out.
C24_Witness ==
    \E t \in LocalIPs :
        /\ reads[t] = 1
        /\ pc[t] = "lock"
        /\ FourProbes(t)
        /\ probes[t][1].data.Uuid = [call |-> callNo, ip |-> t]

\* C25: a discovery task calls SetReadDeadline once, after its sends; only
\* that call moves the deadline of its socket, a datagram that is read
\* leaves it where it is; until the deadline datagrams can keep arriving on
\* the socket, after it the read can only fail; a task that has opened its
\* socket leaves the read loop only through a failed read; and under a fair
\* scheduler and an advancing clock every Discover call that has started
\* its tasks returns.
C25_DeadlineEndsDiscover ==
    /\ [](\A t \in LocalIPs :
            /\ deadlines[t] <= 1
            /\ timeLeft[t] > 0 => (deadlines[t] = 1 /\ Len(probes[t]) = 4)
            /\ (pc[t] = "read" /\ timeLeft[t] > 0) =>
                  \A d \in Datagrams : ENABLED ReadFromUDP(t, d)
            /\ (pc[t] = "read" /\ timeLeft[t] = 0) =>
                  /\ ENABLED ReadError(t)
                  /\ \A d \in Datagrams : ~ENABLED ReadFromUDP(t, d))
    /\ [][\A t \in LocalIPs :
            /\ timeLeft'[t] > timeLeft[t] => (pc[t] = "deadline" /\ pc'[t] = "read")
            /\ (conn[t] = "open" /\ pc[t] # "done" /\ pc'[t] = "done") =>
                  (pc[t] = "read" /\ conn'[t] = "closed")]_vars
    /\ [](mainpc = "loop" => <>(mainpc = "returned"))

\* C25 witness: a Discover call has returned although each of its sockets
\* delivered datagrams until its deadline passed.
C25_Witness ==
    /\ mainpc = "returned"
    /\ resultErr = None
    /\ \A t \in LocalIPs :
         /\ pc[t] = "done"
         /\ reads[t] = MaxReads
         /\ deadlines[t] = 1
         /\ conn[t] = "closed"

(***************************************************************************)
(* Properties of the broadcast send with a target MAC                      *)
(***************************************************************************)
\* the text contains the caller's MAC, whatever the case of either, written
\* with colons or written with dashes
ContainsTargetMAC(text, mac) ==
    \/ Contains(ToLower(text), ToLower(ReplaceAll(mac, "-", ":")))
    \/ Contains(ToLower(text), ToLower(ReplaceAll(mac, ":", "-")))

\* C26: in a broadcast send every response that was put on the result
\* channel, every response a task is about to put there and the response the
\* call returned contain the caller's target MAC in colon or dash form,
\* whatever its case and whichever separator the caller wrote; a read of a
\* datagram that does not contain it leaves the task in its read loop with
\* nothing to forward.
C26_OnlyMatchingForwarded ==
    /\ [](\A i \in 1..Len(forwarded) : ContainsTargetMAC(forwarded[i], opts.TargetMAC))
    /\ [](\A i \in 1..Len(responseChan) :
            ContainsTargetMAC(responseChan[i], opts.TargetMAC))
    /\ [](\A t \in LocalIPs :
            response[t] # << >> => ContainsTargetMAC(response[t][1], opts.TargetMAC))
    /\ []((route = "broadcast" /\ sendResult.resp # << >>) =>
            ContainsTargetMAC(sendResult.resp[1], opts.TargetMAC))
    /\ [][\A t \in LocalIPs : \A d \in Responses :
            (BroadcastRead(t, d) /\ ~ContainsTargetMAC(d, opts.TargetMAC)) =>
               (bpc'[t] = "read" /\ response' = response
                  /\ responseChan' = responseChan /\ forwarded' = forwarded)]_vars

\* C26 witness: the caller wrote the MAC with a colon and mixed case; the
\* call returned a response that has it with a dash and in lower case, while
\* another datagram that was read went nowhere.
C26_Witness ==
    /\ opts.TargetMAC = <<"A", "a", ":", "0", "1">>
    /\ route = "broadcast"
    /\ sendResult.resp = <<RespDash>>
    /\ forwarded = <<RespDash>>
    /\ dropped = 0
    /\ breads >= 2
    /\ \A t \in LocalIPs : bpc[t] = "done"

\* C27: the result channel is closed by one step, taken once, by the closing
\* goroutine, and only when every task that was started has ended and none
\* is left to start; it stays closed; once every task has ended the closing
\* step can be taken; no task's forward step meets a closed channel, so no
\* send panics, also after the caller has returned.
C27_ClosedOnceAfterTasks ==
    /\ [](~panicked)
    /\ [](chanClosed <=> closerpc = "done")
    /\ [](chanClosed =>
            (btodo = << >> /\ bwg = 0
               /\ \A t \in LocalIPs : bpc[t] \in {"none", "done"}))
    /\ [][chanClosed => (chanClosed' /\ closerpc' = closerpc)]_vars
    /\ [](chanClosed => ~ENABLED CloseChan)
    /\ []((closerpc = "wait" /\ \A t \in LocalIPs : bpc[t] \in {"none", "done"})
            => ENABLED CloseChan)
    /\ [][\A t \in LocalIPs : Forward(t) => (~chanClosed /\ ~chanClosed')]_vars

\* C27 witness: the caller has returned the first response; a task went on
\* reading and put a second response on the channel; then the last task
\* ended and the channel was closed with that response still in it.
C27_Witness ==
    /\ chanClosed
    /\ sendpc = "returned"
    /\ sendResult.resp # << >>
    /\ Len(forwarded) = 2
    /\ Len(responseChan) = 1
    /\ ~panicked

\* a task has read a datagram that matches the target MAC
MatchRead ==
    \/ forwarded # << >>
    \/ dropped > 0
    \/ \E t \in LocalIPs : response[t] # << >>

\* C28: in a broadcast send a response is dropped only when the channel is
\* full, so a drop is preceded by a response that was put on the channel;
\* once a task has read a matching datagram the call never returns the
\* timeout error, and under a fair scheduler the caller returns a response.
C28_MatchMeansResponse ==
    /\ [](dropped > 0 => Len(forwarded) >= ChanCap)
    /\ [][dropped' > dropped => Len(responseChan) = ChanCap]_vars
    /\ [](MatchRead => (sendResult.err = << >> /\ ~ENABLED RangeEnd))
    /\ []((route = "broadcast" /\ sendResult.err # << >>) =>
            (forwarded = << >> /\ dropped = 0
               /\ \A t \in LocalIPs : response[t] = << >>))
    /\ [](MatchRead =>
            <>(sendResult.resp # << >> /\ sendResult.err = << >>
                 /\ sendpc = "returned"))

\* C28 witness: matching responses were dropped on the full channel before
\* the caller took one, and the call has returned a response.
C28_Witness ==
    /\ dropped >= 1
    /\ sendpc = "returned"
    /\ sendResult.resp = <<forwarded[1]>>
    /\ sendResult.err = << >>
    /\ Len(responseChan) = ChanCap - 1

(***************************************************************************)
(* Properties of discoverDevices                                           *)
(***************************************************************************)
\* how often x occurs in the sequence s
Occurrences(s, x) == Cardinality({i \in 1..Len(s) : s[i] = x})

\* the addresses the workers have probed, in the order of the probes
ProbedIPs == [i \in 1..Len(frame.probed) |-> frame.probed[i].ip]

\* C29: discoverDevices terminates for every worker count and every IP list:
\* a call that was made returns; an address is probed no more often than the
\* list holds it, and as often when the call returns; the call returns, and
\* reads the ARP table, after exactly len(ips) results were collected; a
\* worker with a result can always send it; a worker in its range loop ends
\* when ipChan is closed and drained.
C29_DiscoverDevicesTerminates ==
    /\ [](frame # << >> =>
            /\ \A x \in ScanIPs :
                  Occurrences(ProbedIPs, x) <= Occurrences(call.ips, x)
            /\ \A w \in WorkerIds :
                  /\ frame.wpc[w] = "result" => ENABLED WorkerResult(w)
                  /\ (frame.wpc[w] = "range" /\ frame.ipChanClosed
                        /\ frame.ipChan = << >>) => ENABLED WorkerEnd(w)
            /\ ret # << >> =>
                  /\ frame.collected = Len(call.ips)
                  /\ \A x \in ScanIPs :
                        Occurrences(ProbedIPs, x) = Occurrences(call.ips, x))
    /\ <>(ret # << >>)
    /\ <>(frame # << >> /\ \A w \in WorkerIds : frame.wpc[w] \in {"none", "done"}
            /\ frame.ipChanClosed)

(***************************************************************************)
(* Termination of ExpandCIDR                                               *)
(***************************************************************************)
\* some address lies outside the prefix; Contains tests each octet by
\* itself, so if one does, one does that differs from the network address
\* in a single octet
SomeAddressOutside(ipnet) ==
    \E i \in 1..4 : \E b \in 0..255 :
        ~IPNetContains(ipnet, [ipnet.IP EXCEPT ![i] = b])

\* the sequence holds no element twice
NoDuplicates(s) == \A i, j \in 1..Len(s) : s[i] = s[j] => i = j

\* C30: for every valid IPv4 prefix the loop of ExpandCIDR can end: some
\* address lies outside the prefix, so that the address it increments, which
\* wraps from 255.255.255.255 to 0.0.0.0, leaves the prefix; the list it
\* collects, and returns, holds no address twice.
C30_ExpandCIDRTerminates ==
    (call.fn = "ExpandCIDR" /\ call.cidr.kind = "cidr") =>
        /\ frame # << >> =>
              /\ SomeAddressOutside(frame.ipnet)
              /\ NoDuplicates(frame.ips)
              /\ (ret = << >> /\ frame.ip = <<0, 0, 0, 0>> /\ frame.ips # << >>)
                    => ENABLED LoopExit
        /\ ret # << >> => (~ret[1].err /\ NoDuplicates(ret[1].ips))

====
